---- MODULE Spec2Model ----
(***************************************************************************)
(* Model of the drilling simulation core: the SimulationEngine class and   *)
(* the FormationModel class it queries.                                    *)
(*                                                                         *)
(* Numbers.  The program computes in IEEE doubles; the model computes in   *)
(* fixed point, every real quantity being held as an integer number of     *)
(* thousandths (50.0 is 50000, 0.05 is 50).  Products and quotients are    *)
(* rescaled with \div, which rounds towards minus infinity (MulK, Percent:  *)
(* they split their operands so that no intermediate value leaves 32       *)
(* bits).  Counters (simulationTime, bopActivations, ...) and clock        *)
(* readings are plain integers.                                            *)
(*                                                                         *)
(* Time.  Date.now() is the variable now, a millisecond counter that the   *)
(* environment advances.  An ISO time string made from a reading and       *)
(* parsed back gives the same reading, so a stored time is the reading.    *)
(***************************************************************************)
EXTENDS Integers, Sequences, FiniteSets, TLC

VARIABLES
    engine,     \* the SimulationEngine object: one record field per class field
    layers,     \* the FormationModel object's private layers array
    timers,     \* the intervals set with setInterval and not yet cleared
    now,        \* the reading of Date.now()
    lastOp      \* the operation the last step performed, with its result

vars == <<engine, layers, timers, now, lastOp>>

----------------------------------------------------------------------------
(* Bounds of the model *)

MaxTicks == 3
MaxActions == 5
MaxNow == 1
MaxStored == 2
MaxCpTicks == 2
MaxCpActions == 1
MaxLoads == 2
MaxGoTicks == 3
MaxGoActions == 1
MaxGoStored == 1
MaxGoLoads == 2
MaxGoEvents == 4
MaxEvictTicks == 12
MaxEvictActions == 1
MaxCreated == 2
MaxPumpTicks == 20
MaxPumpActions == 1
MaxKickTicks == 7
MaxKickActions == 5
MaxBopTicks == 2
MaxBopActions == 4
MaxRiskTicks == 2
MaxRiskActions == 3
MaxRiskEvents == 2
MaxClockTicks == 2
MaxLogTicks == 5
MaxLogActions == 2
MaxEventTicks == 104
MaxEventActions == 104
MaxLayers == 5
MaxGasTicks == 70
MaxGasActions == 8
MaxDefaultTicks == 19
MaxReloadTicks == 19
MaxReloadStored == 1
MaxReloadLoads == 1
MaxHandledTicks == 4
MaxHandledActions == 8
MaxHandledStored == 1
MaxHandledLoads == 1
MaxHandledKicks == 1

----------------------------------------------------------------------------
(* Arithmetic helpers *)

Max(a, b) == IF a >= b THEN a ELSE b
Min(a, b) == IF a <= b THEN a ELSE b
Abs(a) == IF a >= 0 THEN a ELSE 0 - a

\* a * b of two fixed-point numbers: floor(a * b / 1000), exactly
MulK(a, b) ==
    LET a1 == a \div 1000
        a0 == a % 1000
        b1 == b \div 1000
        b0 == b % 1000
    IN a1 * b1 * 1000 + a1 * b0 + a0 * b1 + (a0 * b0) \div 1000

\* a * b / c for c > 0: floor(a * b / c), exactly, by long division
MulDiv(a, b, c) == (a \div c) * b + ((a % c) * b) \div c

\* Math.min(100, Math.max(-100, a / c * 100)) for c > 0, by long division
Percent(a, c) ==
    IF a >= c THEN 100000
    ELSE IF a <= 0 - c THEN 0 - 100000
    ELSE LET r == a % c
             q1 == (r * 1000) \div c
             r1 == (r * 1000) % c
         IN (a \div c) * 100000 + q1 * 100 + (r1 * 100) \div c

\* the marker of a JavaScript undefined or null where a number is expected
\* (no quantity of the program is negative one)
Undefined == 0 - 1

\* x || d on a number: undefined and 0 are falsy
OrDefault(x, d) == IF x = Undefined THEN d ELSE IF x = 0 THEN d ELSE x

Last(s) == s[Len(s)]

\* the last n elements of s: s.slice(-n)
SliceLast(s, n) == IF Len(s) <= n THEN s ELSE SubSeq(s, Len(s) - n + 1, Len(s))

----------------------------------------------------------------------------
(* FormationModel *)

initializeDefaultLayers ==
    << [name |-> "Topsoil", depth |-> 0, thickness |-> 500000,
        porePressure |-> 8500, fracturePressure |-> 12000,
        permeability |-> 10, lithology |-> "sand", kickRisk |-> Undefined],
       [name |-> "Shale", depth |-> 500000, thickness |-> 1000000,
        porePressure |-> 9200, fracturePressure |-> 14500,
        permeability |-> 1, lithology |-> "shale", kickRisk |-> Undefined],
       [name |-> "Reservoir", depth |-> 1500000, thickness |-> 800000,
        porePressure |-> 11000, fracturePressure |-> 15000,
        permeability |-> 500, lithology |-> "sandstone", kickRisk |-> Undefined],
       [name |-> "Overpressured Zone", depth |-> 2300000, thickness |-> 500000,
        porePressure |-> 14000, fracturePressure |-> 16500,
        permeability |-> 50, lithology |-> "limestone", kickRisk |-> Undefined] >>

\* the properties returned when no formation or no layer answers
DefaultProps ==
    [porePressure |-> 9000, fracturePressure |-> 14000, permeability |-> 100,
     lithology |-> "sandstone", kickRisk |-> Undefined]

\* index of the layer holding depth, 0 when there is none
LayerPosAtDepth(ls, depth) ==
    LET hits == {i \in 1..Len(ls) :
                    depth >= ls[i].depth /\ depth < ls[i].depth + ls[i].thickness}
    IN IF hits # {} THEN CHOOSE i \in hits : \A j \in hits : i <= j
       ELSE IF Len(ls) > 0 /\ depth >= ls[Len(ls)].depth THEN Len(ls)
       ELSE 0

\* null is the layer named "null"
NullLayer == [name |-> "null"]

getLayerAtDepth(ls, depth) ==
    LET At(i) == IF i = 0 THEN NullLayer ELSE ls[i]
    IN At(LayerPosAtDepth(ls, depth))

getLayerIndexAtDepth(ls, depth) ==
    LET At(i) == IF i = 0 THEN 1 ELSE i
    IN At(LayerPosAtDepth(ls, depth))

\* properties whose gradient is measured from the bottom of the layer
getPropertiesAtDepth_FromBottom(ls, depth) ==
    LET In(layer) ==
            LET depthInLayer == layer.depth + layer.thickness - depth
            IN [porePressure |-> layer.porePressure
                                   + MulDiv(depthInLayer, 100, layer.thickness),
                fracturePressure |-> layer.fracturePressure
                                   + MulDiv(depthInLayer, 150, layer.thickness),
                permeability |-> layer.permeability,
                lithology |-> layer.lithology,
                kickRisk |-> Undefined]
        At(i) == IF i = 0 THEN DefaultProps ELSE In(ls[i])
    IN At(LayerPosAtDepth(ls, depth))

getPropertiesAtDepth(ls, depth) ==
    LET In(layer) ==
            LET depthInLayer == depth - layer.depth
            IN [porePressure |-> layer.porePressure
                                   + MulDiv(depthInLayer, 100, layer.thickness),
                fracturePressure |-> layer.fracturePressure
                                   + MulDiv(depthInLayer, 150, layer.thickness),
                permeability |-> layer.permeability,
                lithology |-> layer.lithology,
                kickRisk |-> Undefined]
        At(i) == IF i = 0 THEN DefaultProps ELSE In(ls[i])
    IN At(LayerPosAtDepth(ls, depth))

RECURSIVE insertByDepth(_, _, _)
\* the place of layer in the sorted list ls, after the layers of equal depth
insertByDepth(ls, layer, i) ==
    IF i > Len(ls) THEN Append(ls, layer)
    ELSE IF ls[i].depth > layer.depth
    THEN SubSeq(ls, 1, i - 1) \o <<layer>> \o SubSeq(ls, i, Len(ls))
    ELSE insertByDepth(ls, layer, i + 1)

RECURSIVE sortByDepth(_, _)
\* layers.sort((a, b) => a.depth - b.depth): a stable sort, by insertion of
\* ls[i], ls[i+1], ... into the sorted list done
sortByDepth(done, rest) ==
    IF rest = <<>> THEN done
    ELSE sortByDepth(insertByDepth(done, Head(rest), 1), Tail(rest))

\* findIndex(layer => layer.name === name): 0 when there is none
LayerNamed(ls, name) ==
    LET hits == {i \in 1..Len(ls) : ls[i].name = name}
    IN IF hits = {} THEN 0 ELSE CHOOSE i \in hits : \A j \in hits : i <= j

\* layers.push(layer); layers.sort((a, b) => a.depth - b.depth)
addLayer(ls, layer) == sortByDepth(<<>>, Append(ls, layer))

\* layers.filter(layer => layer.name !== layerName)
removeLayer(ls, layerName) == SelectSeq(ls, LAMBDA layer : layer.name # layerName)

\* an update that leaves the replaced layer in its place
updateLayer_NoSort(ls, updatedLayer) ==
    LET At(index) ==
            IF index = 0 THEN ls ELSE [ls EXCEPT ![index] = updatedLayer]
    IN At(LayerNamed(ls, updatedLayer.name))

updateLayer(ls, updatedLayer) ==
    LET At(index) ==
            IF index = 0 THEN ls
            ELSE sortByDepth(<<>>, [ls EXCEPT ![index] = updatedLayer])
    IN At(LayerNamed(ls, updatedLayer.name))

----------------------------------------------------------------------------
(* SimulationEngine: initial field values *)

InitCurrentData(ref) ==
    [rop |-> 0, pumpPressure |-> 0, pitLevel |-> 50000, standpipePressure |-> 0,
     gasLevel |-> 0, bitDepth |-> 0, hookload |-> 250000, mudWeight |-> 10000,
     mudTemperature |-> 120000, formationPressure |-> 0, annularPressure |-> 0,
     torque |-> 0, rpm |-> 0, chokePosition |-> 0, bopStatus |-> "closed",
     events |-> ref]

InitControls ==
    [rop |-> 50000, pumpRate |-> 50000, rotarySpeed |-> 60000, mudWeight |-> 10000,
     chokePosition |-> 0, bopStatus |-> "closed", hookPosition |-> 0,
     drawworks |-> "locked"]

InitEquipmentStatus ==
    [pumps |-> [health |-> 100000, overuseDuration |-> 0],
     drillString |-> [health |-> 100000, vibration |-> 0, torque |-> 0],
     bop |-> [health |-> 100000, lastClosed |-> 0]]

InitTrippingStatus ==
    [isTripping |-> FALSE, direction |-> "none", speed |-> 0,
     lastDepth |-> 0, lastTime |-> 0]

WarningKinds ==
    {"gasInflux", "kick", "lostCirculation", "severeLostCirculation",
     "swabKick", "surgeLoss", "highVibration", "highTorque", "bopWithRotation"}

\* warningTimers = {} : every key reads undefined, which is falsy like 0
NoTimers == [k \in WarningKinds |-> 0]

\* {} : an object without fields
EmptyObject == <<>>

\* the state of a constructed engine whose events array is ref
FreshFields(ref) ==
    [running |-> FALSE, paused |-> FALSE, speed |-> 1000, trainingMode |-> TRUE,
     wellType |-> "vertical", formation |-> FALSE, simulationInterval |-> 0,
     simulationTime |-> 0, elapsedTime |-> 0,
     currentData |-> InitCurrentData(ref), controls |-> InitControls,
     logData |-> <<>>, eventLog |-> <<>>, scenario |-> "normal",
     gameOver |-> FALSE, gameOverReason |-> "", gameOverDetails |-> EmptyObject,
     warningTimers |-> NoTimers, warningTimestamps |-> NoTimers,
     missedWarnings |-> <<>>, actionLog |-> <<>>,
     equipmentStatus |-> InitEquipmentStatus,
     casingDepth |-> 0, lastCasingRun |-> 0, trippingStatus |-> InitTrippingStatus,
     checkpoints |-> <<>>, timelineEvents |-> <<>>,
     lastRiskLevel |-> 0, riskDecaying |-> FALSE,
     formationTransitions |-> <<>>, lastFormationDepth |-> 0,
     currentFormation |-> NullLayer,
     bopActivations |-> 0, kicksHandled |-> 0, targetDepth |-> 0,
     previousGasLevel |-> 0,
     heap |-> (ref :> <<>>)]

----------------------------------------------------------------------------
(* SimulationEngine: private helpers.  Every operator takes the engine     *)
(* record e (the object "this") and returns the record after the call.     *)

getFormationPropertiesAtDepth(e, depth) ==
    IF ~e.formation THEN DefaultProps ELSE getPropertiesAtDepth(layers, depth)

\* the engine's own getLayerIndexAtDepth
engineLayerIndexAtDepth(e, depth) ==
    IF ~e.formation THEN 1 ELSE getLayerIndexAtDepth(layers, depth)

\* depth.toFixed(0): the nearest whole number of feet
ToFixed0(x) == (x + 500) \div 1000

\* eventLog.push(ev); currentData.events.push(ev)
PushEvent(e, ev) ==
    [e EXCEPT !.eventLog = Append(@, ev),
              !.heap[e.currentData.events] = Append(@, ev)]

\* the event object the engine builds for a warning of the given type
MakeEvent(e, type, severity) ==
    [type |-> type, time |-> now, depth |-> e.currentData.bitDepth,
     layer |-> engineLayerIndexAtDepth(e, e.currentData.bitDepth),
     severity |-> severity, description |-> type]

\* warningTimers[k] = simulationTime; warningTimestamps[k] = Date.now()
StartWarning(e, k) ==
    [e EXCEPT !.warningTimers[k] = e.simulationTime,
              !.warningTimestamps[k] = now]

\* the random suffix of a timeline event id is never read back by the
\* engine; the id is modelled by its clock reading
addTimelineEvent(e, event) ==
    [e EXCEPT !.timelineEvents =
        SliceLast(Append(@, [event EXCEPT !.id = now]), 100)]

TimelineEvent(type, severity, parameters) ==
    [type |-> type, time |-> now, severity |-> severity,
     parameters |-> parameters, id |-> Undefined]

logAction(e, action, value) ==
    [e EXCEPT !.actionLog = Append(@,
        [action |-> action, value |-> value, time |-> now,
         depth |-> e.currentData.bitDepth,
         parameters |-> [rop |-> e.currentData.rop,
                         pumpPressure |-> e.currentData.pumpPressure,
                         pitLevel |-> e.currentData.pitLevel,
                         gasLevel |-> e.currentData.gasLevel,
                         mudWeight |-> e.currentData.mudWeight]])]

pause(e) == [e EXCEPT !.paused = TRUE]

resume(e) == [e EXCEPT !.paused = FALSE]

isGameOver(e) == e.gameOver

\* details carries the description of the failure; its consequence and
\* prevention tips are fixed texts that go with the description
triggerGameOver(e, reason, details) ==
    IF e.gameOver THEN e
    ELSE LET e1 == [e EXCEPT
                 !.gameOver = TRUE,
                 !.gameOverReason = reason,
                 !.gameOverDetails =
                     [description |-> details,
                      time |-> now,
                      depth |-> e.currentData.bitDepth,
                      elapsedTime |-> e.elapsedTime,
                      parameters |->
                          [rop |-> e.currentData.rop,
                           pumpPressure |-> e.currentData.pumpPressure,
                           pitLevel |-> e.currentData.pitLevel,
                           gasLevel |-> e.currentData.gasLevel,
                           mudWeight |-> e.currentData.mudWeight,
                           standpipePressure |-> e.currentData.standpipePressure,
                           annularPressure |-> e.currentData.annularPressure,
                           formationPressure |-> e.currentData.formationPressure],
                      missedWarnings |-> e.missedWarnings,
                      actionLog |-> SliceLast(e.actionLog, 20)]]
             gameOverEvent ==
                 [MakeEvent(e, "gameOver", "critical") EXCEPT !.description = reason]
         IN pause(PushEvent(e1, gameOverEvent))

resetGameOver(e) ==
    [e EXCEPT !.gameOver = FALSE,
              !.gameOverReason = "",
              !.gameOverDetails = EmptyObject,
              !.missedWarnings = <<>>,
              !.actionLog = <<>>,
              !.warningTimers = NoTimers,
              !.warningTimestamps = NoTimers,
              !.equipmentStatus = InitEquipmentStatus,
              !.casingDepth = 0,
              !.lastCasingRun = 0,
              !.trippingStatus = InitTrippingStatus]

\* the fields stop() sets; clearing the interval is ClearInterval
stop(e) == [e EXCEPT !.running = FALSE, !.paused = FALSE, !.simulationInterval = 0]

\* clearInterval(handle) when the handle is set
ClearInterval(ts, handle) == {t \in ts : t.id # handle}

\* the arrays that the live state or a stored checkpoint still refers to
LiveRefs(e) ==
    {e.currentData.events}
        \cup {e.checkpoints[i].state.currentData.events : i \in 1..Len(e.checkpoints)}

\* a new empty array: the address is the least one not in use
NewArray(e) == CHOOSE r \in 1..(Cardinality(LiveRefs(e)) + 1) : r \notin LiveRefs(e)

\* unreachable arrays are dropped (garbage collection)
Collect(e) == [e EXCEPT !.heap = [r \in LiveRefs(e) |-> e.heap[r]]]

reset(e) ==
    LET e1 == resetGameOver(stop(e))
        ref == NewArray([e1 EXCEPT !.currentData.events = 0])
        e2 == [e1 EXCEPT
                 !.simulationTime = 0,
                 !.elapsedTime = 0,
                 !.currentData = InitCurrentData(ref),
                 !.controls = InitControls,
                 !.logData = <<>>,
                 !.eventLog = <<>>,
                 !.timelineEvents = <<>>,
                 !.formationTransitions = <<>>,
                 !.lastFormationDepth = 0,
                 !.currentFormation = NullLayer,
                 !.lastRiskLevel = 0,
                 !.riskDecaying = FALSE,
                 !.heap = (ref :> <<>>) @@ e1.heap]
    IN Collect(e2)

----------------------------------------------------------------------------
(* Checkpoints *)

MaxCheckpoints == 10

\* a retention that keeps the oldest checkpoints instead of the newest
keepLastCheckpoints_Oldest(cps) ==
    IF Len(cps) > MaxCheckpoints THEN SubSeq(cps, 1, MaxCheckpoints) ELSE cps

\* if (checkpoints.length > 10) checkpoints = checkpoints.slice(-10)
keepLastCheckpoints(cps) ==
    IF Len(cps) > MaxCheckpoints THEN SliceLast(cps, MaxCheckpoints) ELSE cps

\* { ...currentData } copies the fields; the events field of the copy is the
\* same array as the original's.  JSON.parse(JSON.stringify(x)) of a record
\* of numbers is a copy equal to x.
createCheckpoint(e, automatic) ==
    LET depth == e.currentData.bitDepth
        checkpoint ==
            [id |-> now,
             name |-> [automatic |-> automatic, ft |-> ToFixed0(depth)],
             timestamp |-> now,
             depth |-> depth,
             automatic |-> automatic,
             state |-> [currentData |-> e.currentData,
                        controls |-> e.controls,
                        equipmentStatus |-> e.equipmentStatus,
                        casingDepth |-> e.casingDepth,
                        simulationTime |-> e.simulationTime]]
        e1 == [e EXCEPT !.checkpoints = keepLastCheckpoints(Append(@, checkpoint))]
    IN IF ~automatic
       THEN addTimelineEvent(Collect(e1),
                TimelineEvent("checkpoint", "info", [depth |-> depth, id |-> now]))
       ELSE Collect(e1)

\* checkpoints.find(cp => cp.id === id): position of the first match, 0 if none
FindCheckpoint(cps, id) ==
    LET hits == {i \in 1..Len(cps) : cps[i].id = id}
    IN IF hits = {} THEN 0 ELSE CHOOSE i \in hits : \A j \in hits : i <= j

\* the record after the call; the returned boolean is LoadSucceeds
LoadSucceeds(e, id) == FindCheckpoint(e.checkpoints, id) # 0

\* a restore that leaves the game-over state as it is
restoreState_KeepsGameOver(e, checkpoint) ==
    [e EXCEPT
       !.currentData = checkpoint.state.currentData,
       !.controls = checkpoint.state.controls,
       !.equipmentStatus = checkpoint.state.equipmentStatus,
       !.casingDepth = checkpoint.state.casingDepth,
       !.simulationTime = checkpoint.state.simulationTime]

\* a restore that also takes the pause away
restoreState_Resumes(e, checkpoint) ==
    [e EXCEPT
       !.currentData = checkpoint.state.currentData,
       !.controls = checkpoint.state.controls,
       !.equipmentStatus = checkpoint.state.equipmentStatus,
       !.casingDepth = checkpoint.state.casingDepth,
       !.simulationTime = checkpoint.state.simulationTime,
       !.gameOver = FALSE,
       !.gameOverReason = "",
       !.gameOverDetails = EmptyObject,
       !.paused = FALSE]

\* the assignments of loadCheckpoint: the stored state, then the game-over
\* state.  { ...checkpoint.state.currentData } shares the events array.
restoreState(e, checkpoint) ==
    [e EXCEPT
       !.currentData = checkpoint.state.currentData,
       !.controls = checkpoint.state.controls,
       !.equipmentStatus = checkpoint.state.equipmentStatus,
       !.casingDepth = checkpoint.state.casingDepth,
       !.simulationTime = checkpoint.state.simulationTime,
       !.gameOver = FALSE,
       !.gameOverReason = "",
       !.gameOverDetails = EmptyObject]

\* a load that records the request in the timeline before it looks the
\* checkpoint up
loadCheckpoint_LogsFirst(e, id) ==
    LET i == FindCheckpoint(e.checkpoints, id)
        e0 == addTimelineEvent(e,
                  TimelineEvent("checkpointLoaded", "info",
                                [depth |-> e.currentData.bitDepth, id |-> id]))
    IN IF i = 0 THEN e0
       ELSE Collect(restoreState(e0, e.checkpoints[i]))

loadCheckpoint(e, id) ==
    LET i == FindCheckpoint(e.checkpoints, id)
    IN IF i = 0 THEN e
       ELSE LET checkpoint == e.checkpoints[i]
            IN addTimelineEvent(Collect(restoreState(e, checkpoint)),
                   TimelineEvent("checkpointLoaded", "info",
                                 [depth |-> checkpoint.depth, id |-> id]))

----------------------------------------------------------------------------
(* The physics formulas *)

HardLithology(props) == props.lithology = "limestone" \/ props.lithology = "dolomite"

calculateTorque(rotarySpeed, props) ==
    LET baseTorque == rotarySpeed \div 2
    IN IF HardLithology(props) THEN (baseTorque * 3) \div 2 ELSE baseTorque

calculateHookload(depth, wellType) ==
    LET baseHookload == 100000 + depth \div 20
        wellTypeFactor == IF wellType = "deviated" THEN 1200
                          ELSE IF wellType = "horizontal" THEN 1500 ELSE 1000
    IN MulK(baseHookload, wellTypeFactor)

calculatePumpPressure(pumpRate, depth) ==
    LET basePressure == pumpRate * 3
        depthFactor == 1000 + depth \div 20000
    IN MulK(basePressure, depthFactor)

calculateStandpipePressure(pumpPressure, chokePosition) ==
    LET chokeFactor == 1000 + chokePosition \div 200
    IN MulK(pumpPressure, chokeFactor)

calculateAnnularPressure(standpipePressure, depth) ==
    LET depthFactor == Max(500, 1000 - depth \div 20000)
    IN MulK(standpipePressure, depthFactor)

\* mudWeight * 0.052 * bitDepth, evaluated left to right
Hydrostatic(cd) == MulK(MulK(cd.mudWeight, 52), cd.bitDepth)

calculateVibration(e) ==
    LET baseVibration == e.controls.rotarySpeed \div 2
        ropFactor == e.controls.rop \div 50
        formationFactor ==
            IF HardLithology(getFormationPropertiesAtDepth(e, e.currentData.bitDepth))
            THEN 1500 ELSE 1000
        depthFactor == 1000 + e.currentData.bitDepth \div 20000
    IN Min(100000,
           MulK(MulK(MulK(baseVibration, ropFactor), formationFactor), depthFactor))

----------------------------------------------------------------------------
(* Action names and String.prototype.includes *)

Chars ==
    [a \in {"Changed rop", "Changed pumpRate", "Changed rotarySpeed",
            "Changed mudWeight", "Changed chokePosition", "Changed bopStatus",
            "Changed hookPosition", "Changed drawworks",
            "Run Casing", "Start Tripping", "Stop Tripping",
            "BOP", "mudWeight", "chokePosition"} |->
      CASE a = "Changed rop" -> <<"C","h","a","n","g","e","d"," ","r","o","p">>
        [] a = "Changed pumpRate" ->
             <<"C","h","a","n","g","e","d"," ","p","u","m","p","R","a","t","e">>
        [] a = "Changed rotarySpeed" ->
             <<"C","h","a","n","g","e","d"," ","r","o","t","a","r","y","S","p","e","e","d">>
        [] a = "Changed mudWeight" ->
             <<"C","h","a","n","g","e","d"," ","m","u","d","W","e","i","g","h","t">>
        [] a = "Changed chokePosition" ->
             <<"C","h","a","n","g","e","d"," ","c","h","o","k","e","P","o","s","i","t","i","o","n">>
        [] a = "Changed bopStatus" ->
             <<"C","h","a","n","g","e","d"," ","b","o","p","S","t","a","t","u","s">>
        [] a = "Changed hookPosition" ->
             <<"C","h","a","n","g","e","d"," ","h","o","o","k","P","o","s","i","t","i","o","n">>
        [] a = "Changed drawworks" ->
             <<"C","h","a","n","g","e","d"," ","d","r","a","w","w","o","r","k","s">>
        [] a = "Run Casing" -> <<"R","u","n"," ","C","a","s","i","n","g">>
        [] a = "Start Tripping" ->
             <<"S","t","a","r","t"," ","T","r","i","p","p","i","n","g">>
        [] a = "Stop Tripping" ->
             <<"S","t","o","p"," ","T","r","i","p","p","i","n","g">>
        [] a = "BOP" -> <<"B","O","P">>
        [] a = "mudWeight" -> <<"m","u","d","W","e","i","g","h","t">>
        [] a = "chokePosition" ->
             <<"c","h","o","k","e","P","o","s","i","t","i","o","n">>]

\* hay.includes(needle), case-sensitive
Includes(hay, needle) ==
    LET In(h, n) == \E i \in 1..(Len(h) - Len(n) + 1) : SubSeq(h, i, i + Len(n) - 1) = n
        Of(chars) == In(chars[hay], chars[needle])
    IN Of(Chars)

\* `Changed ${key}`
ChangedAction(key) ==
    CASE key = "rop" -> "Changed rop"
      [] key = "pumpRate" -> "Changed pumpRate"
      [] key = "rotarySpeed" -> "Changed rotarySpeed"
      [] key = "mudWeight" -> "Changed mudWeight"
      [] key = "chokePosition" -> "Changed chokePosition"
      [] key = "bopStatus" -> "Changed bopStatus"
      [] key = "hookPosition" -> "Changed hookPosition"
      [] key = "drawworks" -> "Changed drawworks"

----------------------------------------------------------------------------
(* The event detector *)

\* a kick test that leaves the depth threshold out
kickCondition_AnyDepth(cd, props) ==
    /\ props.porePressure > Hydrostatic(cd)
    /\ cd.pitLevel < 100000

\* the test that opens the kick branch of checkForEvents
kickCondition(cd, props) ==
    /\ cd.bitDepth > 500000
    /\ props.porePressure > Hydrostatic(cd)
    /\ cd.pitLevel < 100000

\* roll is the value of Math.random(), in thousandths
checkForEvents(e, props, roll) ==
    LET cd == e.currentData
        hydrostaticPressure == Hydrostatic(cd)
        pressureDifferential == props.porePressure - hydrostaticPressure
        formationKickRisk == OrDefault(props.kickRisk, 200)
        kickProbability ==
            Min(1000, MulK(pressureDifferential \div 10, formationKickRisk))
        Kick(k1) ==
            IF e.warningTimers["kick"] = 0
            THEN addTimelineEvent(
                     PushEvent(StartWarning(k1, "kick"),
                               MakeEvent(k1, "kick", "warning")),
                     TimelineEvent("kickDetected", "critical",
                         [depth |-> cd.bitDepth,
                          formationPressure |-> props.porePressure,
                          hydrostaticPressure |-> hydrostaticPressure,
                          mudWeight |-> cd.mudWeight]))
            ELSE k1
        afterKick ==
            IF kickCondition(cd, props)
            THEN IF roll < kickProbability
                 THEN Kick([e EXCEPT
                              !.currentData.gasLevel = @ + pressureDifferential \div 10,
                              !.currentData.pitLevel = @ + pressureDifferential \div 20])
                 ELSE e
            ELSE [e EXCEPT !.warningTimers["kick"] = 0]
        lossCondition == \/ cd.mudWeight > props.fracturePressure
                         \/ cd.standpipePressure > props.fracturePressure * 150
        lossRate == Max((cd.mudWeight - props.fracturePressure) * 2,
                        (cd.standpipePressure - props.fracturePressure * 150) \div 100)
        Severe(l2) ==
            IF lossRate > 5000 /\ l2.warningTimers["severeLostCirculation"] = 0
            THEN PushEvent(StartWarning(l2, "severeLostCirculation"),
                           MakeEvent(l2, "severeLostCirculation", "critical"))
            ELSE l2
        Loss(l1) ==
            Severe(IF l1.warningTimers["lostCirculation"] = 0
                   THEN addTimelineEvent(
                            PushEvent(StartWarning(l1, "lostCirculation"),
                                      MakeEvent(l1, "lostCirculation", "warning")),
                            TimelineEvent("lostCirculation", "warning",
                                [depth |-> cd.bitDepth,
                                 fracturePressure |-> props.fracturePressure,
                                 mudWeight |-> cd.mudWeight,
                                 standpipePressure |-> cd.standpipePressure]))
                   ELSE l1)
        Losses(k) ==
            IF lossCondition
            THEN Loss([k EXCEPT !.currentData.pitLevel = @ - lossRate \div 10])
            ELSE [k EXCEPT !.warningTimers["lostCirculation"] = 0,
                           !.warningTimers["severeLostCirculation"] = 0]
    IN Losses(afterKick)

----------------------------------------------------------------------------
(* The terminal evaluator *)

Unstable(props) == props.lithology = "shale" \/ props.permeability < 10

\* the conditions of the rules, on the state the evaluator is called with
PitDepleted(e) == e.currentData.pitLevel = 0

Blowout(e) ==
    /\ e.currentData.bitDepth > 500000
    /\ e.currentData.gasLevel > 20000
    /\ e.controls.bopStatus = "open"

FormationBreakdown(e, props) ==
    /\ \/ e.currentData.standpipePressure > props.fracturePressure * 200
       \/ e.currentData.mudWeight * 10 > props.fracturePressure * 12
    /\ e.currentData.gasLevel > 5000
    /\ e.currentData.pitLevel < 30000

GasPresent(e) == e.currentData.bitDepth > 500000 /\ e.currentData.gasLevel > 5000

\* the gas-influx timer as it stands once the rule has started it
GasTimer(e) ==
    IF e.warningTimers["gasInflux"] = 0 THEN e.simulationTime
    ELSE e.warningTimers["gasInflux"]

GasStamp(e) ==
    IF e.warningTimers["gasInflux"] = 0 THEN now
    ELSE e.warningTimestamps["gasInflux"]

\* a limit of 60 ticks at every speed
GasTimeUp_SixtyTicks(e) == e.simulationTime - GasTimer(e) > 60

\* timeElapsed > 60 * speed
GasTimeUp(e) == (e.simulationTime - GasTimer(e)) * 1000 > 60 * e.speed

actionsAfterWarning(e) ==
    SelectSeq(e.actionLog,
              LAMBDA action :
                  /\ action.time > GasStamp(e)
                  /\ \/ Includes(action.action, "BOP")
                     \/ Includes(action.action, "mudWeight")
                     \/ Includes(action.action, "chokePosition"))

GasIgnored(e) == GasPresent(e) /\ GasTimeUp(e) /\ Len(actionsAfterWarning(e)) = 0

WellCollapse(e, props) ==
    /\ e.currentData.bitDepth - e.casingDepth > 1500000
    /\ e.simulationTime - e.lastCasingRun > 1000
    /\ Unstable(props)

\* rule 4 with its timer bookkeeping; the result says whether the rule fired
gasInfluxRule(e, props) ==
    LET h2sPresent == props.lithology = "shale" \/ e.scenario = "blowout"
        Missed(e2) ==
            [fired |-> TRUE,
             e |-> IF h2sPresent
                   THEN triggerGameOver(e2, "H2S Exposure",
                            "Gas influx containing H2S reached dangerous levels without mitigation.")
                   ELSE triggerGameOver(e2, "Uncontrolled Gas Influx",
                            "Gas influx was ignored and has escalated to an uncontrollable situation.")]
        Timed(e1) ==
            IF GasTimeUp(e)
            THEN IF Len(actionsAfterWarning(e)) = 0
                 THEN Missed([e1 EXCEPT !.missedWarnings = Append(@,
                                 [warning |-> "Gas Influx Detected",
                                  time |-> e1.warningTimestamps["gasInflux"],
                                  requiredAction |-> "Close BOP and adjust mud weight",
                                  timeAllowed |-> "60 seconds"])])
                 ELSE [fired |-> FALSE, e |-> [e1 EXCEPT !.warningTimers["gasInflux"] = 0]]
            ELSE [fired |-> FALSE, e |-> e1]
    IN IF GasPresent(e)
       THEN Timed(IF e.warningTimers["gasInflux"] = 0
                  THEN StartWarning(e, "gasInflux") ELSE e)
       ELSE [fired |-> FALSE, e |-> [e EXCEPT !.warningTimers["gasInflux"] = 0]]

\* rules 5 and 6, reached when rules 1 to 4 did not fire
equipmentAndCollapseRules(e, props) ==
    IF e.equipmentStatus.pumps.health <= 0
    THEN triggerGameOver(e, "Pump Failure",
             "Pumps failed due to extended operation beyond rated capacity.")
    ELSE IF e.equipmentStatus.drillString.health <= 0
    THEN triggerGameOver(e, "Drill String Failure",
             "Drill string failed due to excessive torque and vibration.")
    ELSE IF e.equipmentStatus.bop.health <= 0
    THEN triggerGameOver(e, "BOP Failure",
             "BOP failed due to improper operation.")
    ELSE IF WellCollapse(e, props)
    THEN triggerGameOver(e, "Wellbore Collapse",
             "Wellbore collapsed due to drilling too deep without casing in unstable formation.")
    ELSE e

\* an evaluator that looks at the equipment before the well
checkGameOverConditions_EquipmentFirst(e, props) ==
    IF e.equipmentStatus.pumps.health <= 0
          \/ e.equipmentStatus.drillString.health <= 0
          \/ e.equipmentStatus.bop.health <= 0
    THEN equipmentAndCollapseRules(e, props)
    ELSE IF PitDepleted(e)
    THEN triggerGameOver(e, "Mud Pit Depletion",
             "Mud depleted - circulation impossible - formation fluids uncontrolled.")
    ELSE IF Blowout(e)
    THEN triggerGameOver(e, "Blowout Event",
             "Uncontrolled kick has escalated to a blowout.")
    ELSE IF FormationBreakdown(e, props)
    THEN triggerGameOver(e, "Formation Breakdown with Kick",
             "Excessive pressure fractured the formation, causing severe losses followed by an influx.")
    ELSE LET After(r) == IF r.fired THEN r.e
                         ELSE equipmentAndCollapseRules(r.e, props)
         IN After(gasInfluxRule(e, props))

checkGameOverConditions(e, props) ==
    IF PitDepleted(e)
    THEN triggerGameOver(e, "Mud Pit Depletion",
             "Mud depleted - circulation impossible - formation fluids uncontrolled.")
    ELSE IF Blowout(e)
    THEN triggerGameOver(e, "Blowout Event",
             "Uncontrolled kick has escalated to a blowout.")
    ELSE IF FormationBreakdown(e, props)
    THEN triggerGameOver(e, "Formation Breakdown with Kick",
             "Excessive pressure fractured the formation, causing severe losses followed by an influx.")
    ELSE LET After(r) == IF r.fired THEN r.e
                         ELSE equipmentAndCollapseRules(r.e, props)
         IN After(gasInfluxRule(e, props))

----------------------------------------------------------------------------
(* Equipment health, tripping, logs *)

\* a pump update that counts the overuse and takes no health
updatePumps_NoDamage(e) ==
    IF e.controls.pumpRate > 800000
    THEN [e EXCEPT !.equipmentStatus.pumps.overuseDuration = @ + 1000]
    ELSE IF e.equipmentStatus.pumps.overuseDuration > 0
    THEN [e EXCEPT !.equipmentStatus.pumps.overuseDuration = Max(0, @ - 500)]
    ELSE e

\* the pump part of updateEquipmentStatus
updatePumps(e) ==
    LET pumpRate == e.controls.pumpRate
    IN IF pumpRate > 800000
       THEN [e EXCEPT
               !.equipmentStatus.pumps.overuseDuration = @ + 1000,
               !.equipmentStatus.pumps.health = @ - (pumpRate - 800000) \div 2000]
       ELSE IF e.equipmentStatus.pumps.overuseDuration > 0
       THEN [e EXCEPT !.equipmentStatus.pumps.overuseDuration = Max(0, @ - 500)]
       ELSE e

\* a closed BOP that loses a hundredth of the rotary speed per tick
bopDamage_Hundredth(e) == e.controls.rotarySpeed \div 100

\* bop.health -= rotarySpeed * 0.1
bopDamage(e) == e.controls.rotarySpeed \div 10

updateEquipmentStatus(e) ==
    LET Warn(w, k) ==
            PushEvent(StartWarning(w, k), MakeEvent(w, k, "warning"))
        DrillString(d1, vibration, torque) ==
            LET HighTorque(w1) ==
                    IF w1.warningTimers["highTorque"] = 0 /\ torque > 90000
                    THEN Warn(w1, "highTorque") ELSE w1
                HighVibration(w0) ==
                    HighTorque(IF w0.warningTimers["highVibration"] = 0
                                     /\ vibration > 80000
                               THEN Warn(w0, "highVibration") ELSE w0)
                vibrationDamage == Max(0, (vibration - 80000) \div 20)
                torqueDamage == Max(0, (torque - 90000) \div 10)
            IN IF vibration > 80000 \/ torque > 90000
               THEN HighVibration([d1 EXCEPT !.equipmentStatus.drillString.health =
                                                @ - (vibrationDamage + torqueDamage)])
               ELSE [d1 EXCEPT !.warningTimers["highVibration"] = 0,
                               !.warningTimers["highTorque"] = 0]
        Measured(p1, vibration, torque) ==
            DrillString([p1 EXCEPT !.equipmentStatus.drillString.vibration = vibration,
                                   !.equipmentStatus.drillString.torque = torque],
                        vibration, torque)
        Pumps(p1) == Measured(p1, calculateVibration(p1), p1.currentData.torque)
        Rotating(b1) ==
            IF b1.warningTimers["bopWithRotation"] = 0
            THEN Warn(b1, "bopWithRotation") ELSE b1
        Bop(d2) ==
            IF d2.controls.bopStatus = "closed" /\ d2.controls.rotarySpeed > 30000
            THEN Rotating([d2 EXCEPT !.equipmentStatus.bop.health =
                                        @ - bopDamage(d2)])
            ELSE [d2 EXCEPT !.warningTimers["bopWithRotation"] = 0]
    IN Bop(Pumps(updatePumps(e)))

checkTrippingOperations(e) ==
    LET ts == e.trippingStatus
        timeDelta == e.simulationTime - ts.lastTime
        currentDepth == e.currentData.bitDepth
        depthDelta == currentDepth - ts.lastDepth
        Warn(w, k) ==
            IF w.warningTimers[k] = 0
            THEN PushEvent(StartWarning(w, k), MakeEvent(w, k, "warning")) ELSE w
        \* |depthDelta| / (timeDelta / 60), feet per minute
        actualSpeed == (Abs(depthDelta) * 60) \div timeDelta
        swabPressureReduction == (actualSpeed - 100000) \div 20
        Swabbed(s1) ==
            IF Hydrostatic(s1.currentData) < s1.currentData.formationPressure
            THEN Warn([s1 EXCEPT
                         !.currentData.gasLevel = @ + swabPressureReduction \div 2,
                         !.currentData.pitLevel = @ + swabPressureReduction \div 5],
                      "swabKick")
            ELSE s1
        Out(t1) ==
            IF ts.direction = "out" /\ actualSpeed > 100000
            THEN Swabbed([t1 EXCEPT !.currentData.formationPressure =
                                       @ + swabPressureReduction])
            ELSE t1
        surgePressureIncrease == (actualSpeed - 100000) \div 10
        Surged(g1, props) ==
            IF g1.currentData.annularPressure > props.fracturePressure * 100
            THEN Warn([g1 EXCEPT !.currentData.pitLevel =
                                    @ - surgePressureIncrease \div 2],
                      "surgeLoss")
            ELSE g1
        Pressed(g1) ==
            Surged(g1, getFormationPropertiesAtDepth(g1, g1.currentData.bitDepth))
        In(t2) ==
            IF ts.direction = "in" /\ actualSpeed > 100000
            THEN Pressed([t2 EXCEPT !.currentData.annularPressure =
                                       @ + surgePressureIncrease])
            ELSE t2
    IN IF ~ts.isTripping \/ timeDelta <= 0 THEN e
       ELSE In(Out([e EXCEPT !.trippingStatus.lastDepth = currentDepth,
                             !.trippingStatus.lastTime = e.simulationTime]))

MaxLogData == 1000

\* a logger that drops the new entry when the log is full
addToLogs_KeepsOldest(e) ==
    IF Len(e.logData) >= MaxLogData THEN e
    ELSE [e EXCEPT !.logData = Append(@, [depth |-> e.currentData.bitDepth])]

addToLogs(e) ==
    LET cd == e.currentData
        logEntry == [time |-> now, depth |-> cd.bitDepth, rop |-> cd.rop,
                     pumpPressure |-> cd.pumpPressure,
                     standpipePressure |-> cd.standpipePressure,
                     pitLevel |-> cd.pitLevel, gasLevel |-> cd.gasLevel,
                     mudWeight |-> cd.mudWeight,
                     formationPressure |-> cd.formationPressure,
                     annularPressure |-> cd.annularPressure,
                     torque |-> cd.torque, rpm |-> cd.rpm, hookload |-> cd.hookload]
    IN [e EXCEPT !.logData = SliceLast(Append(@, logEntry), MaxLogData)]

\* a check that never brings previousGasLevel up to date
checkKickHandling_KeepsPrevious(e) ==
    IF /\ e.previousGasLevel > 3000
       /\ e.currentData.gasLevel < e.previousGasLevel
       /\ e.controls.bopStatus = "closed"
    THEN addTimelineEvent([e EXCEPT !.kicksHandled = @ + 1],
             TimelineEvent("kickHandled", "success",
                 [depth |-> e.currentData.bitDepth,
                  gasLevel |-> e.currentData.gasLevel,
                  mudWeight |-> e.currentData.mudWeight]))
    ELSE e

checkKickHandling(e) ==
    LET e1 == IF /\ e.previousGasLevel > 3000
                 /\ e.currentData.gasLevel < e.previousGasLevel
                 /\ e.controls.bopStatus = "closed"
              THEN addTimelineEvent([e EXCEPT !.kicksHandled = @ + 1],
                       TimelineEvent("kickHandled", "success",
                           [depth |-> e.currentData.bitDepth,
                            gasLevel |-> e.currentData.gasLevel,
                            mudWeight |-> e.currentData.mudWeight]))
              ELSE e
    IN [e1 EXCEPT !.previousGasLevel = e.currentData.gasLevel]

checkFormationTransition(e, depth) ==
    LET Enter(currentLayer) ==
            LET transition ==
                    [time |-> now, depth |-> depth,
                     fromFormation |-> IF e.currentFormation.name # NullLayer.name
                                       THEN e.currentFormation.name ELSE "Surface",
                     toFormation |-> currentLayer.name,
                     properties |->
                         [lithology |-> currentLayer.lithology,
                          porePressure |-> currentLayer.porePressure,
                          fracturePressure |-> currentLayer.fracturePressure,
                          permeability |-> currentLayer.permeability,
                          kickRisk |-> OrDefault(currentLayer.kickRisk, 100)]]
            IN [addTimelineEvent(
                    [e EXCEPT !.formationTransitions = Append(@, transition),
                              !.currentFormation = currentLayer],
                    TimelineEvent("formationTransition", "info",
                        [depth |-> depth,
                         lithology |-> currentLayer.lithology,
                         porePressure |-> currentLayer.porePressure,
                         fracturePressure |-> currentLayer.fracturePressure]))
                EXCEPT !.lastFormationDepth = depth]
        At(currentLayer) ==
            IF /\ currentLayer.name # NullLayer.name
               /\ e.currentFormation.name # currentLayer.name
            THEN Enter(currentLayer)
            ELSE [e EXCEPT !.lastFormationDepth = depth]
    IN IF ~e.formation THEN e ELSE At(getLayerAtDepth(layers, depth))

----------------------------------------------------------------------------
(* One tick *)

\* depth and depthIncrement after the depth update
depthUpdate(e) ==
    IF e.controls.drawworks = "unlocked"
    THEN LET depthChange ==
                 (e.controls.hookPosition - e.currentData.bitDepth \div 100) * 10
         IN [bitDepth |-> Max(0, e.currentData.bitDepth + depthChange),
             depthIncrement |-> 0]
    ELSE LET depthIncrement == MulK(e.controls.rop, e.speed) \div 3600
         IN [bitDepth |-> e.currentData.bitDepth + depthIncrement,
             depthIncrement |-> depthIncrement]

\* the assignments of updateSimulation up to the call of checkForEvents
updateParameters(e, props, bitDepth) ==
    LET pumpPressure == calculatePumpPressure(e.controls.pumpRate, bitDepth)
        standpipePressure ==
            calculateStandpipePressure(pumpPressure, e.controls.chokePosition)
    IN [e EXCEPT
          !.currentData.bitDepth = bitDepth,
          !.currentData.rop = e.controls.rop,
          !.currentData.rpm = e.controls.rotarySpeed,
          !.currentData.torque = calculateTorque(e.controls.rotarySpeed, props),
          !.currentData.hookload = calculateHookload(bitDepth, e.wellType),
          !.currentData.mudWeight = e.controls.mudWeight,
          !.currentData.pumpPressure = pumpPressure,
          !.currentData.standpipePressure = standpipePressure,
          !.currentData.annularPressure =
              calculateAnnularPressure(standpipePressure, bitDepth),
          !.currentData.pitLevel = Max(0, @),
          !.currentData.formationPressure = props.porePressure,
          !.currentData.bopStatus = e.controls.bopStatus,
          !.currentData.chokePosition = e.controls.chokePosition]

\* the state the terminal evaluator of the tick is called with
beforeEvaluator(e, roll) ==
    LET Detect(t3, formationProps) == checkForEvents(t3, formationProps, roll)
        Drill(t2, formationProps) ==
            Detect(updateParameters(t2, formationProps, depthUpdate(t2).bitDepth),
                   formationProps)
        Advance(t1) ==
            Drill(checkFormationTransition(t1, t1.currentData.bitDepth),
                  getFormationPropertiesAtDepth(t1, t1.currentData.bitDepth))
    IN Advance([e EXCEPT !.simulationTime = @ + 1,
                         !.elapsedTime = @ + 1000000 \div e.speed])

\* the reasons of the terminal rules whose conditions hold on the state the
\* evaluator is called with
HeldRules(e, props) ==
    {r \in {"Mud Pit Depletion", "Blowout Event", "Formation Breakdown with Kick",
            "H2S Exposure", "Uncontrolled Gas Influx", "Pump Failure",
            "Drill String Failure", "BOP Failure", "Wellbore Collapse"} :
        \/ r = "Mud Pit Depletion" /\ PitDepleted(e)
        \/ r = "Blowout Event" /\ Blowout(e)
        \/ r = "Formation Breakdown with Kick" /\ FormationBreakdown(e, props)
        \/ /\ r = IF props.lithology = "shale" \/ e.scenario = "blowout"
                  THEN "H2S Exposure" ELSE "Uncontrolled Gas Influx"
           /\ GasIgnored(e)
        \/ r = "Pump Failure" /\ e.equipmentStatus.pumps.health <= 0
        \/ r = "Drill String Failure" /\ e.equipmentStatus.drillString.health <= 0
        \/ r = "BOP Failure" /\ e.equipmentStatus.bop.health <= 0
        \/ r = "Wellbore Collapse" /\ WellCollapse(e, props)}

\* updateSimulation past its first line
updateSimulationBody(e, roll) ==
    LET formationProps == getFormationPropertiesAtDepth(e, e.currentData.bitDepth)
        depthIncrement == depthUpdate(e).depthIncrement
        Log(t8) ==
            checkKickHandling(IF t8.simulationTime % 5 = 0 THEN addToLogs(t8) ELSE t8)
        Checkpoint(t7) ==
            Log(IF t7.currentData.bitDepth \div 500000
                      > (t7.currentData.bitDepth - depthIncrement) \div 500000
                THEN createCheckpoint(t7, TRUE) ELSE t7)
    IN Checkpoint(checkTrippingOperations(updateEquipmentStatus(
           checkGameOverConditions(beforeEvaluator(e, roll), formationProps))))

\* a tick that does not look at the game-over flag
updateSimulation_IgnoresGameOver(e, roll) == updateSimulationBody(e, roll)

\* if (this.gameOver) return
updateSimulation(e, roll) ==
    IF e.gameOver THEN e ELSE updateSimulationBody(e, roll)

----------------------------------------------------------------------------
(* The risk aggregator.  getRiskLevel is called by the host only; it       *)
(* returns {level, type, decaying} and updates the engine.                 *)

\* Math.round
Round(x) == (x + 500) \div 1000

kickSubScore(e, props) ==
    LET h == Hydrostatic(e.currentData)
        h95 == MulK(h, 950)
        h05 == MulK(h, 50)
    IN IF e.currentData.bitDepth > 500000 /\ props.porePressure > h95
       THEN LET kickRisk == IF h05 = 0 THEN 100000
                            ELSE Percent(props.porePressure - h95, h05)
                formationKickFactor == OrDefault(props.kickRisk, 200)
            IN MulK(kickRisk, 700 + MulK(formationKickFactor, 300))
       ELSE 0

lossSubScore(e, props) ==
    LET mw == e.currentData.mudWeight
        spp == e.currentData.standpipePressure
        fp == props.fracturePressure
    IN IF mw * 10 > fp * 9 \/ spp > fp * 130
       THEN Max(Percent(mw * 10 - fp * 9, fp), Percent(spp - fp * 130, fp * 20))
       ELSE 0

pitSubScore(e) ==
    IF e.currentData.pitLevel < 30000
    THEN Min(100000, ((30000 - e.currentData.pitLevel) * 10) \div 3)
    ELSE 0

equipmentSubScore(e) ==
    Min(100000,
        Max(((100000 - e.equipmentStatus.pumps.health) * 12) \div 10,
            Max(((100000 - e.equipmentStatus.drillString.health) * 12) \div 10,
                ((100000 - e.equipmentStatus.bop.health) * 12) \div 10)))

instabilitySubScore(e, props) ==
    LET depthWithoutCasing == e.currentData.bitDepth - e.casingDepth
    IN IF depthWithoutCasing > 1000000 /\ Unstable(props)
       THEN Min(100000, (depthWithoutCasing - 1000000) \div 10)
       ELSE 0

\* a method in which every positive score replaces the level
riskOf_LastPositive(e) ==
    LET props == getFormationPropertiesAtDepth(e, e.currentData.bitDepth)
        r0 == [level |-> 0, type |-> "null"]
        take(r, score, type) == IF score > 0
                                THEN [level |-> score, type |-> type] ELSE r
        r1 == take(r0, kickSubScore(e, props), "kick")
        r2 == take(r1, lossSubScore(e, props), "lostCirculation")
        r3 == take(r2, pitSubScore(e), "pitDepletion")
        r4 == take(r3, equipmentSubScore(e), "equipmentFailure")
    IN take(r4, instabilitySubScore(e, props), "wellboreInstability")

\* the running maximum of the method: a later score replaces the level only
\* when it is strictly greater
riskOf(e) ==
    LET props == getFormationPropertiesAtDepth(e, e.currentData.bitDepth)
        r0 == [level |-> 0, type |-> "null"]
        take(r, score, type) == IF score > r.level
                                THEN [level |-> score, type |-> type] ELSE r
        r1 == take(r0, kickSubScore(e, props), "kick")
        r2 == take(r1, lossSubScore(e, props), "lostCirculation")
        r3 == take(r2, pitSubScore(e), "pitDepletion")
        r4 == take(r3, equipmentSubScore(e), "equipmentFailure")
    IN take(r4, instabilitySubScore(e, props), "wellboreInstability")

riskGameOverReason(type) ==
    CASE type = "kick" -> "Uncontrolled Kick"
      [] type = "lostCirculation" -> "Catastrophic Lost Circulation"
      [] type = "pitDepletion" -> "Mud System Failure"
      [] type = "equipmentFailure" -> "Critical Equipment Failure"
      [] type = "wellboreInstability" -> "Wellbore Collapse"
      [] OTHER -> "Critical System Failure"

riskDescription(type) ==
    CASE type = "kick" ->
           "Formation fluids entered the wellbore and were not properly controlled."
      [] type = "lostCirculation" ->
           "Complete loss of drilling fluid to the formation."
      [] type = "pitDepletion" ->
           "Critical depletion of drilling fluid reserves."
      [] type = "equipmentFailure" ->
           "Key drilling equipment has failed beyond operational limits."
      [] type = "wellboreInstability" ->
           "The wellbore has collapsed due to instability and lack of support."
      [] OTHER -> "Multiple critical failures led to an unrecoverable situation."

riskDecayingOf(e) == riskOf(e).level < e.lastRiskLevel

\* return { level: riskLevel, type: riskType, decaying }
getRiskLevelResult(e) ==
    LET Result(r) == [level |-> r.level, type |-> r.type,
                      decaying |-> r.level < e.lastRiskLevel]
    IN Result(riskOf(e))

\* a getter that builds the game-over record on every read of a risk of 100
getRiskLevel_EndsAgain(e) ==
    LET Ended(r, e2) ==
            IF r.level >= 100000
            THEN triggerGameOver([e2 EXCEPT !.gameOver = FALSE],
                                 riskGameOverReason(r.type), riskDescription(r.type))
            ELSE e2
        Risk(r) == Ended(r, [e EXCEPT !.lastRiskLevel = r.level,
                                      !.riskDecaying = r.level < e.lastRiskLevel])
    IN Risk(riskOf(e))

getRiskLevel(e) ==
    LET Ended(r, e2) ==
            IF r.level >= 100000 /\ ~e2.gameOver
            THEN triggerGameOver(e2, riskGameOverReason(r.type), riskDescription(r.type))
            ELSE e2
        Noted(r, e1) ==
            Ended(r, [e1 EXCEPT !.lastRiskLevel = r.level,
                                !.riskDecaying = r.level < e.lastRiskLevel])
        Risk(r) ==
            LET parameters == [previousRisk |-> Round(e.lastRiskLevel),
                               currentRisk |-> Round(r.level),
                               riskType |-> r.type]
            IN Noted(r, IF r.level < e.lastRiskLevel
                        THEN IF e.lastRiskLevel - r.level > 20000
                             THEN addTimelineEvent(e,
                                      TimelineEvent("riskDecreased", "success",
                                                    parameters))
                             ELSE e
                        ELSE IF r.level > e.lastRiskLevel + 10000
                        THEN addTimelineEvent(e,
                                 TimelineEvent("riskIncreased",
                                     IF r.level > 70000 THEN "critical" ELSE "warning",
                                     parameters))
                        ELSE e)
    IN Risk(riskOf(e))

----------------------------------------------------------------------------
(* Host operations on the engine *)

\* a control object is a sequence of <<key, value>> pairs in key order
HasKey(c, key) == \E i \in 1..Len(c) : c[i][1] = key

ValueOf(c, key) == c[CHOOSE i \in 1..Len(c) : c[i][1] = key][2]

RECURSIVE logChanges(_, _, _, _)
\* Object.keys(controls).forEach: compares with the controls before the call
logChanges(e, old, c, i) ==
    IF i > Len(c) THEN e
    ELSE logChanges(IF old[c[i][1]] # c[i][2]
                    THEN logAction(e, ChangedAction(c[i][1]), c[i][2]) ELSE e,
                    old, c, i + 1)

RECURSIVE merge(_, _, _)
\* { ...this.controls, ...controls }
merge(old, c, i) ==
    IF i > Len(c) THEN old
    ELSE merge([old EXCEPT ![c[i][1]] = c[i][2]], c, i + 1)

\* controls.bopStatus === "closed"; the field is absent from c when not given
GivesClosed(c) ==
    \E i \in 1..Len(c) : c[i][1] = "bopStatus" /\ c[i][2] = "closed"

\* a setter that counts every call that asks for a closed BOP
setControls_CountsEveryClose(e, c) ==
    LET e1 == IF GivesClosed(c)
              THEN addTimelineEvent([e EXCEPT !.bopActivations = @ + 1],
                       TimelineEvent("bopActivation", "info",
                           [depth |-> e.currentData.bitDepth,
                            gasLevel |-> e.currentData.gasLevel]))
              ELSE e
        e2 == logChanges(e1, e.controls, c, 1)
    IN [e2 EXCEPT !.controls = merge(e.controls, c, 1)]

setControls(e, c) ==
    LET e1 == IF e.controls.bopStatus = "open" /\ GivesClosed(c)
              THEN addTimelineEvent([e EXCEPT !.bopActivations = @ + 1],
                       TimelineEvent("bopActivation", "info",
                           [depth |-> e.currentData.bitDepth,
                            gasLevel |-> e.currentData.gasLevel]))
              ELSE e
        e2 == logChanges(e1, e.controls, c, 1)
    IN [e2 EXCEPT !.controls = merge(e.controls, c, 1)]

runCasing(e) ==
    LET e1 == [e EXCEPT !.casingDepth = e.currentData.bitDepth,
                        !.lastCasingRun = e.simulationTime]
    IN logAction(e1, "Run Casing", e1.casingDepth)

startTripping(e, direction, speed) ==
    logAction([e EXCEPT !.trippingStatus =
                   [isTripping |-> TRUE, direction |-> direction, speed |-> speed,
                    lastDepth |-> e.currentData.bitDepth,
                    lastTime |-> e.simulationTime]],
              "Start Tripping", [direction |-> direction, speed |-> speed])

stopTripping(e) ==
    logAction([e EXCEPT !.trippingStatus.isTripping = FALSE,
                        !.trippingStatus.direction = "none"],
              "Stop Tripping", Undefined)

\* the kickRisk back-fill of setFormation, on one layer
backfillKickRisk(layer) ==
    IF layer.kickRisk = Undefined
    THEN LET pressureFactor == Max(0, (layer.porePressure - 9000) \div 5)
             permeabilityFactor == Min(1000, layer.permeability * 2)
         IN [layer EXCEPT !.kickRisk =
                Min(800, MulK(pressureFactor, 700) + MulK(permeabilityFactor, 300))]
    ELSE layer

----------------------------------------------------------------------------
(* Clock control.  w is the pair of the engine record and the timer table. *)

\* the handle setInterval returns: the least one not in use
NewTimer(ts) == CHOOSE n \in 1..(Cardinality(ts) + 1) : \A t \in ts : t.id # n

\* 1000 / speed, in milliseconds
Period(speed) == 1000000 \div speed

\* a start() without the guard on running
startW_Always(w) ==
    LET id == NewTimer(w.ts)
    IN [e |-> [w.e EXCEPT !.running = TRUE, !.paused = FALSE,
                          !.simulationInterval = id],
        ts |-> w.ts \cup {[id |-> id, period |-> Period(w.e.speed)]}]

startW(w) ==
    IF w.e.running THEN w
    ELSE LET id == NewTimer(w.ts)
         IN [e |-> [w.e EXCEPT !.running = TRUE, !.paused = FALSE,
                               !.simulationInterval = id],
             ts |-> w.ts \cup {[id |-> id, period |-> Period(w.e.speed)]}]

\* a stop() that leaves the interval set
stopW_LeavesTimer(w) == [e |-> stop(w.e), ts |-> w.ts]

stopW(w) ==
    [e |-> stop(w.e),
     ts |-> IF w.e.simulationInterval # 0
            THEN ClearInterval(w.ts, w.e.simulationInterval) ELSE w.ts]

resetW(w) == [e |-> reset(w.e), ts |-> stopW(w).ts]

setSpeedW(w, speed) ==
    LET w1 == [w EXCEPT !.e.speed = speed]
    IN IF w1.e.running /\ ~w1.e.paused THEN startW(stopW(w1)) ELSE w1

\* layers.find(pred): the index of the first layer of hits, 0 when none
FirstOf(hits) ==
    IF hits = {} THEN 0 ELSE CHOOSE i \in hits : \A j \in hits : i <= j

\* layers.reduce((prev, current) => prev.depth > current.depth ? prev : current)
DeepestIndex(ls) ==
    CHOOSE i \in 1..Len(ls) :
        \A j \in 1..Len(ls) :
            \/ ls[j].depth < ls[i].depth
            \/ ls[j].depth = ls[i].depth /\ j <= i

\* the layer a scenario picks and the layer it makes of it; the fields are
\* written into the formation model's own layer object, and updateLayer is
\* then called with that object
scenarioLayers(ls, scenario) ==
    LET Put(index, layer) ==
            IF index = 0 THEN ls
            ELSE updateLayer([ls EXCEPT ![index] = layer], layer)
        Kick(index) ==
            Put(index, IF index = 0 THEN NullLayer
                       ELSE [ls[index] EXCEPT !.porePressure = 14000,
                                              !.kickRisk = 600])
        Lost(index) ==
            Put(index, IF index = 0 THEN NullLayer
                       ELSE [ls[index] EXCEPT !.fracturePressure = 11000])
        Stuck(index) ==
            Put(index, IF index = 0 THEN NullLayer
                       ELSE [ls[index] EXCEPT !.permeability = 1,
                                              !.porePressure = 8000])
        Blow(index) ==
            Put(index, [ls[index] EXCEPT !.porePressure = 16000,
                                         !.permeability = 500,
                                         !.kickRisk = 800])
    IN IF Len(ls) = 0 THEN ls
       ELSE CASE scenario = "kick" ->
                     Kick(FirstOf({i \in 1..Len(ls) : ls[i].depth > 1500000}))
              [] scenario = "lost-circulation" ->
                     Lost(FirstOf({i \in 1..Len(ls) :
                                     ls[i].depth > 800000 /\ ls[i].depth < 1500000}))
              [] scenario = "stuck-pipe" ->
                     Stuck(FirstOf({i \in 1..Len(ls) : ls[i].depth > 1000000}))
              [] scenario = "blowout" -> Blow(DeepestIndex(ls))
              [] OTHER -> ls

\* this.scenario = scenario; this.reset(); then the scenario's layer
loadScenarioW(w, ls, scenario) ==
    [e |-> [resetW(w).e EXCEPT !.scenario = scenario],
     ts |-> resetW(w).ts,
     ls |-> IF w.e.formation THEN scenarioLayers(ls, scenario) ELSE ls]

World == [e |-> engine, ts |-> timers]

----------------------------------------------------------------------------
(* Actions *)

\* lastOp records the last call: its name, its argument, what it returned,
\* and, for a tick, the terminal rules whose conditions held when the
\* evaluator ran
Op(name, arg, ret) ==
    lastOp' = [op |-> name, arg |-> arg, ret |-> ret, held |-> {}]

Init ==
    /\ engine = FreshFields(1)
    /\ layers = initializeDefaultLayers
    /\ timers = {}
    /\ now = 0
    /\ lastOp = [op |-> "new", arg |-> 0, ret |-> TRUE, held |-> {}]

Start ==
    /\ engine' = startW(World).e
    /\ timers' = startW(World).ts
    /\ Op("start", 0, TRUE)
    /\ UNCHANGED <<layers, now>>

Pause ==
    /\ engine' = pause(engine)
    /\ Op("pause", 0, TRUE)
    /\ UNCHANGED <<layers, timers, now>>

Resume ==
    /\ engine' = resume(engine)
    /\ Op("resume", 0, TRUE)
    /\ UNCHANGED <<layers, timers, now>>

Stop ==
    /\ engine' = stopW(World).e
    /\ timers' = stopW(World).ts
    /\ Op("stop", 0, TRUE)
    /\ UNCHANGED <<layers, now>>

Reset ==
    /\ engine' = resetW(World).e
    /\ timers' = resetW(World).ts
    /\ Op("reset", 0, TRUE)
    /\ UNCHANGED <<layers, now>>

ResetGameOver ==
    /\ engine' = resetGameOver(engine)
    /\ Op("resetGameOver", 0, TRUE)
    /\ UNCHANGED <<layers, timers, now>>

SetSpeed(speed) ==
    /\ engine' = setSpeedW(World, speed).e
    /\ timers' = setSpeedW(World, speed).ts
    /\ Op("setSpeed", speed, TRUE)
    /\ UNCHANGED <<layers, now>>

\* the host calls loadScenario(scenario)
LoadScenario(scenario) ==
    /\ engine' = loadScenarioW(World, layers, scenario).e
    /\ timers' = loadScenarioW(World, layers, scenario).ts
    /\ layers' = loadScenarioW(World, layers, scenario).ls
    /\ Op("loadScenario", 0, TRUE)
    /\ UNCHANGED now

\* setFormation(formationModel): getLayers() copies the array, not the layer
\* objects, so the back-fill writes into the model's own layers
SetFormation ==
    /\ engine' = [engine EXCEPT !.formation = TRUE]
    /\ layers' = [i \in 1..Len(layers) |-> backfillKickRisk(layers[i])]
    /\ Op("setFormation", 0, TRUE)
    /\ UNCHANGED <<timers, now>>

\* the host calls updateLayer on the formation model
UpdateLayer(updatedLayer) ==
    /\ layers' = updateLayer(layers, updatedLayer)
    /\ Op("updateLayer", updatedLayer.name, TRUE)
    /\ UNCHANGED <<engine, timers, now>>

\* the host calls setControls with the k-th control object of inputs
SetControls(inputs, k, maxActions) ==
    /\ Len(engine.actionLog) < maxActions
    /\ engine' = setControls(engine, inputs[k])
    /\ Op("setControls", k, TRUE)
    /\ UNCHANGED <<layers, timers, now>>

RunCasing(maxActions) ==
    /\ Len(engine.actionLog) < maxActions
    /\ engine' = runCasing(engine)
    /\ Op("runCasing", 0, TRUE)
    /\ UNCHANGED <<layers, timers, now>>

StartTripping(direction, speed, maxActions) ==
    /\ Len(engine.actionLog) < maxActions
    /\ engine' = startTripping(engine, direction, speed)
    /\ Op("startTripping", speed, TRUE)
    /\ UNCHANGED <<layers, timers, now>>

StopTripping(maxActions) ==
    /\ Len(engine.actionLog) < maxActions
    /\ engine' = stopTripping(engine)
    /\ Op("stopTripping", 0, TRUE)
    /\ UNCHANGED <<layers, timers, now>>

\* refreshLogs() called by the host: this.addToLogs()
RefreshLogs ==
    /\ engine' = addToLogs(engine)
    /\ Op("refreshLogs", 0, TRUE)
    /\ UNCHANGED <<layers, timers, now>>

\* createCheckpoint() called by the host
CreateCheckpoint(maxStored) ==
    /\ Len(engine.checkpoints) < maxStored
    /\ engine' = createCheckpoint(engine, FALSE)
    /\ Op("createCheckpoint", now, TRUE)
    /\ UNCHANGED <<layers, timers, now>>

\* the number of loads the timeline holds
Loads(e) ==
    Cardinality({i \in 1..Len(e.timelineEvents) :
                    e.timelineEvents[i].type = "checkpointLoaded"})

LoadCheckpoint(id, maxLoads) ==
    /\ Loads(engine) < maxLoads
    /\ engine' = loadCheckpoint(engine, id)
    /\ Op("loadCheckpoint", id, LoadSucceeds(engine, id))
    /\ UNCHANGED <<layers, timers, now>>

\* the number of risk changes the timeline holds
RiskEvents(e) ==
    Cardinality({i \in 1..Len(e.timelineEvents) :
                    e.timelineEvents[i].type \in {"riskIncreased", "riskDecreased"}})

GetRiskLevel(maxRiskEvents) ==
    /\ RiskEvents(engine) < maxRiskEvents
    /\ engine' = getRiskLevel(engine)
    /\ Op("getRiskLevel", 0, getRiskLevelResult(engine))
    /\ UNCHANGED <<layers, timers, now>>

\* the values Math.random() is drawn from, in thousandths
RandomDraws == {0, 999}

\* an interval fires: if (!this.paused) this.updateSimulation()
Tick(maxTicks) ==
    /\ timers # {}
    /\ engine.simulationTime < maxTicks
    /\ \E roll \in RandomDraws :
          /\ engine' = IF engine.paused THEN engine
                       ELSE updateSimulation(engine, roll)
          /\ lastOp' = [op |-> "tick", arg |-> 0,
                        ret |-> ~engine.paused /\ ~engine.gameOver,
                        held |-> IF engine.paused \/ engine.gameOver THEN {}
                                 ELSE HeldRules(beforeEvaluator(engine, roll),
                                          getFormationPropertiesAtDepth(engine,
                                              engine.currentData.bitDepth))]
    /\ UNCHANGED <<layers, timers, now>>

\* a millisecond passes
AdvanceClock ==
    /\ now < MaxNow
    /\ now' = now + 1
    /\ UNCHANGED <<engine, layers, timers, lastOp>>

----------------------------------------------------------------------------
(* Spec: the engine driven through its controls.  The host sets the speed, *)
(* starts the clock, changes controls and pulls the string out of the      *)
(* hole; the timer ticks.                                                  *)

\* control objects the host passes to setControls
ControlInputs ==
    << << <<"mudWeight", 139000>> >>,
       << <<"rotarySpeed", 2200000>> >>,
       << <<"pumpRate", 100800000>>, <<"rotarySpeed", 500000>> >>,
       << <<"hookPosition", 60000>>, <<"drawworks", "unlocked">> >>,
       << <<"mudWeight", 2059000>>, <<"bopStatus", "open">> >>,
       << <<"mudWeight", 2000000>>, <<"bopStatus", "open">> >> >>

\* speeds the host sets: 0.01, at which the 60 seconds of the gas-influx
\* rule pass in one tick
SlowSpeeds == {10}

Next ==
    \/ (timers = {} /\ Start)
    \/ \E speed \in SlowSpeeds : engine.speed # speed /\ SetSpeed(speed)
    \/ \E k \in 1..Len(ControlInputs) : SetControls(ControlInputs, k, MaxActions)
    \/ StartTripping("out", 50000, MaxActions)
    \/ Tick(MaxTicks)

Spec == Init /\ [][Next]_vars

----------------------------------------------------------------------------
(* SpecCheckpoint: the engine driven through its checkpoints.  The host    *)
(* starts, stops and resumes the clock, raises the mud weight, runs        *)
(* casing, creates and loads checkpoints and resets; the timer ticks and   *)
(* the clock advances.                                                     *)

\* a mud weight that empties the pit in one tick
CheckpointInputs == << << <<"mudWeight", 264000>> >> >>

\* the ids the host asks for: every clock reading, and one no checkpoint has
CheckpointIds == 0..(MaxNow + 1)

NextCheckpoint ==
    \/ Start
    \/ Resume
    \/ SetControls(CheckpointInputs, 1, MaxCpActions)
    \/ RunCasing(MaxCpActions)
    \/ CreateCheckpoint(MaxStored)
    \/ \E id \in CheckpointIds : LoadCheckpoint(id, MaxLoads)
    \/ Tick(MaxCpTicks)
    \/ AdvanceClock

SpecCheckpoint == Init /\ [][NextCheckpoint]_vars

----------------------------------------------------------------------------
(* SpecGameOver: the engine driven into game over and out of it.  The host *)
(* starts the clock when it is stopped, stops it when it runs and resumes  *)
(* it when it is paused, raises the mud weight, creates and loads          *)
(* checkpoints, and resets the engine or its game-over state when the      *)
(* engine is in game over; the timer ticks, and a tick runs while the      *)
(* events list is short of its bound.                                      *)

\* the events the current SimulationState lists
CurrentEvents(e) == e.heap[e.currentData.events]

NextGameOver ==
    \/ (~engine.running /\ Start)
    \/ (engine.paused /\ Resume)
    \/ (engine.running /\ Stop)
    \/ (isGameOver(engine) /\ Reset)
    \/ (isGameOver(engine) /\ ResetGameOver)
    \/ SetControls(CheckpointInputs, 1, MaxGoActions)
    \/ CreateCheckpoint(MaxGoStored)
    \/ \E id \in {0, 1} : LoadCheckpoint(id, MaxGoLoads)
    \/ /\ isGameOver(engine) \/ Len(CurrentEvents(engine)) < MaxGoEvents
       /\ Tick(MaxGoTicks)

SpecGameOver == Init /\ [][NextGameOver]_vars

----------------------------------------------------------------------------
(* SpecEvict: the checkpoint store filled past its capacity.  The host     *)
(* raises the rate of penetration so that every tick crosses a 500 ft      *)
(* mark, starts the clock and creates checkpoints by hand; the timer       *)
(* ticks, and each tick that crosses a mark creates a checkpoint.          *)

\* 1,800,000 ft/hr: 500 ft per tick at speed 1
EvictInputs == << << <<"rop", 1800000000>> >> >>

\* the number of checkpoints the host has created since the last reset
Created(e) ==
    Cardinality({i \in 1..Len(e.timelineEvents) :
                    e.timelineEvents[i].type = "checkpoint"})

NextEvict ==
    \/ Start
    \/ SetControls(EvictInputs, 1, MaxEvictActions)
    \/ (Created(engine) < MaxCreated /\ CreateCheckpoint(MaxCheckpoints + 1))
    \/ Tick(MaxEvictTicks)

SpecEvict == Init /\ [][NextEvict]_vars

----------------------------------------------------------------------------
(* SpecPump: the pumps run above their rating.  On the engine as           *)
(* constructed the host sets the pump rate to 900 before the first tick,   *)
(* starts, pauses and resumes the clock; the timer ticks.                  *)

PumpInputs == << << <<"pumpRate", 900000>> >> >>

NextPump ==
    \/ Start
    \/ Pause
    \/ Resume
    \/ (engine.simulationTime = 0 /\ SetControls(PumpInputs, 1, MaxPumpActions))
    \/ Tick(MaxPumpTicks)

SpecPump == Init /\ [][NextPump]_vars

----------------------------------------------------------------------------
(* SpecKick: the bit lowered into a prepared formation.  Before the first  *)
(* tick the host may move the overpressured zone and attach the formation  *)
(* model; it starts the clock, lowers the bit with the drawworks, and      *)
(* changes the mud weight; the timer ticks.                                *)

\* the overpressured zone moved to 3000 ft, with pore pressure 15.5
DeepZone ==
    [name |-> "Overpressured Zone", depth |-> 3000000, thickness |-> 500000,
     porePressure |-> 15500, fracturePressure |-> 16500,
     permeability |-> 50, lithology |-> "limestone", kickRisk |-> Undefined]

\* the hook target 300 takes the bit from 0 to 3000 ft in one tick; the
\* target 30 holds it there
KickInputs ==
    << << <<"hookPosition", 300000>>, <<"drawworks", "unlocked">> >>,
       << <<"mudWeight", 8000>>, <<"hookPosition", 30000>> >>,
       << <<"mudWeight", 0>> >> >>

NextKick ==
    \/ (engine.simulationTime = 0 /\ layers = initializeDefaultLayers
           /\ UpdateLayer(DeepZone))
    \/ (engine.simulationTime = 0 /\ ~engine.formation /\ SetFormation)
    \/ (timers = {} /\ Start)
    \/ SetControls(KickInputs, 1, MaxKickActions)
    \/ (engine.currentData.bitDepth = 3000000
           /\ SetControls(KickInputs, 2, MaxKickActions))
    \/ SetControls(KickInputs, 3, MaxKickActions)
    \/ Tick(MaxKickTicks)

SpecKick == Init /\ [][NextKick]_vars

----------------------------------------------------------------------------
(* What the host reads *)

\* the events array of a SimulationState, read through its reference
Resolved(e, data) == [data EXCEPT !.events = e.heap[@]]

\* getCurrentData(): a copy of the current SimulationState
getCurrentData(e) == Resolved(e, e.currentData)

\* getCheckpoints(): the i-th checkpoint as the host reads it
StoredCheckpoint(e, i) ==
    [e.checkpoints[i] EXCEPT
       !.state.currentData = Resolved(e, e.checkpoints[i].state.currentData)]

\* the step is a timer firing that ran updateSimulation
ExecutedTick == lastOp'.op = "tick" /\ lastOp'.ret /\ now' = now

\* the step is a timer firing
TimerFires == lastOp'.op = "tick" /\ now' = now

----------------------------------------------------------------------------
(* The claims *)

\* C1: the pit level that getCurrentData() returns is never negative,
\* whatever ticks and operations came before.
C1_PitLevelNeverNegative == getCurrentData(engine).pitLevel >= 0

\* C2 as stated: once the engine is in game over, a timer firing changes
\* nothing of the engine, and the engine leaves game over only by a
\* successful loadCheckpoint or by reset.
C2_GameOverIsFinal ==
    [][isGameOver(engine)
       => /\ TimerFires => engine' = engine
          /\ ~isGameOver(engine')
               => \/ lastOp'.op = "loadCheckpoint" /\ lastOp'.ret
                  \/ lastOp'.op = "reset"]_vars

\* C2 as amended: once the engine is in game over, a timer firing changes
\* nothing of the engine, and the engine leaves game over only by a
\* successful loadCheckpoint, by reset or by resetGameOver.
C2_GameOverLeftByThreeCalls ==
    [][isGameOver(engine)
       => /\ TimerFires => engine' = engine
          /\ ~isGameOver(engine')
               => \/ lastOp'.op = "loadCheckpoint" /\ lastOp'.ret
                  \/ lastOp'.op \in {"reset", "resetGameOver"}]_vars

\* a timer has fired in game over with the clock running and not paused
C2_Witness ==
    /\ isGameOver(engine)
    /\ engine.running
    /\ ~engine.paused
    /\ lastOp.op = "tick"
    /\ ~lastOp.ret

\* C3: a tick that runs when the losses have exhausted the pit (the pit
\* level is at or below 0) ends in game over with reason "Mud Pit
\* Depletion".
C3_DepletedPitEndsTheGame ==
    [][(ExecutedTick /\ engine.currentData.pitLevel <= 0)
       => (isGameOver(engine') /\ engine'.gameOverReason = "Mud Pit Depletion")]_vars

\* the place of a reason in the order pit 0, blowout, formation breakdown
\* with kick, unmitigated gas influx, equipment failure, wellbore collapse
Priority(reason) ==
    CASE reason = "Mud Pit Depletion" -> 1
      [] reason = "Blowout Event" -> 2
      [] reason = "Formation Breakdown with Kick" -> 3
      [] reason \in {"H2S Exposure", "Uncontrolled Gas Influx"} -> 4
      [] reason \in {"Pump Failure", "Drill String Failure", "BOP Failure"} -> 5
      [] reason = "Wellbore Collapse" -> 6
      [] OTHER -> 7

C5_LoadRestoresStoredState ==
    (lastOp.op = "loadCheckpoint"
        /\ \E i \in 1..Len(engine.checkpoints) : engine.checkpoints[i].id = lastOp.arg)
    => /\ lastOp.ret
       /\ \E i \in 1..Len(engine.checkpoints) :
             /\ engine.checkpoints[i].id = lastOp.arg
             /\ \A j \in 1..(i - 1) : engine.checkpoints[j].id # lastOp.arg
             /\ getCurrentData(engine) = StoredCheckpoint(engine, i).state.currentData
       /\ ~isGameOver(engine)

\* a load that has taken the engine out of game over: the clock is still
\* paused by the terminal transition, and the restored tick counter is
\* behind the game-over event
C5_Witness ==
    /\ lastOp.op = "loadCheckpoint"
    /\ lastOp.ret
    /\ engine.paused
    /\ \E i \in 1..Len(engine.eventLog) : engine.eventLog[i].type = "gameOver"
    /\ engine.simulationTime = 0

\* C6: no step changes a field of the state of a stored checkpoint, its
\* events list included.
C6_StoredStateIsDeepCopy ==
    [][\A i \in 1..Len(engine.checkpoints) :
          /\ i <= Len(engine'.checkpoints)
          /\ StoredCheckpoint(engine', i) = StoredCheckpoint(engine, i)]_vars

\* C7: after a successful loadCheckpoint no tick-valued field is later than
\* the restored tick counter: not the tick of the last casing run, not the
\* tick of the tripping status, not a warning timer.
C7_NoFieldLaterThanTickCounter ==
    (lastOp.op = "loadCheckpoint" /\ lastOp.ret)
    => /\ engine.lastCasingRun <= engine.simulationTime
       /\ engine.trippingStatus.lastTime <= engine.simulationTime
       /\ \A k \in WarningKinds : engine.warningTimers[k] <= engine.simulationTime

\* the stored checkpoints a new one is appended to: all of them, or all but
\* the oldest when they are 10
KeptFor11th(cps) == IF Len(cps) < 10 THEN cps ELSE Tail(cps)

\* C8: the store holds at most 10 checkpoints; a step that changes the store
\* appends one checkpoint to the stored ones, the oldest of them dropped
\* when they were 10; and a createCheckpoint call of the host is such a
\* step, the checkpoint it appends being a manual one of the current state.
C8_TenCheckpointsOldestEvicted ==
    [][/\ Len(engine'.checkpoints) <= 10
       /\ engine'.checkpoints # engine.checkpoints
            => engine'.checkpoints
                  = KeptFor11th(engine.checkpoints) \o << Last(engine'.checkpoints) >>
       /\ lastOp'.op = "createCheckpoint"
            => /\ engine'.checkpoints
                    = KeptFor11th(engine.checkpoints) \o << Last(engine'.checkpoints) >>
               /\ ~Last(engine'.checkpoints).automatic
               /\ Last(engine'.checkpoints).state.currentData = engine.currentData
               /\ Last(engine'.checkpoints).state.simulationTime
                    = engine.simulationTime]_vars

\* the store is full and holds checkpoints made by ticks and by the host,
\* and a checkpoint the timeline says the host created is no longer stored
C8_Witness ==
    /\ Len(engine.checkpoints) = 10
    /\ \E i, j \in 1..10 : /\ engine.checkpoints[i].automatic
                            /\ ~engine.checkpoints[j].automatic
    /\ \E k \in 1..Len(engine.timelineEvents) :
          /\ engine.timelineEvents[k].type = "checkpoint"
          /\ \A i \in 1..10 :
                \/ engine.checkpoints[i].automatic
                \/ engine.checkpoints[i].depth
                      # engine.timelineEvents[k].parameters.depth

\* C9: loadCheckpoint with an id the store does not have returns false and
\* changes nothing of the engine, its formation or its timers.
C9_UnknownIdChangesNothing ==
    [][(/\ lastOp'.op = "loadCheckpoint"
        /\ now' = now
        /\ \A i \in 1..Len(engine.checkpoints) : engine.checkpoints[i].id # lastOp'.arg)
       => (~lastOp'.ret /\ engine' = engine /\ layers' = layers /\ timers' = timers)]_vars

\* a load that failed on a store that holds a checkpoint, the engine being
\* in game over
C9_Witness ==
    /\ lastOp.op = "loadCheckpoint"
    /\ ~lastOp.ret
    /\ Len(engine.checkpoints) > 0
    /\ isGameOver(engine)

----------------------------------------------------------------------------
(* SpecBop: the BOP opened and closed.  The host starts the clock and      *)
(* calls setControls with a BOP status, with the same status again, and    *)
(* without one; the timer ticks.                                           *)

BopInputs ==
    << << <<"bopStatus", "open">> >>,
       << <<"bopStatus", "closed">> >>,
       << <<"rotarySpeed", 0>> >>,
       << <<"rotarySpeed", 0>>, <<"bopStatus", "closed">> >> >>

NextBop ==
    \/ (timers = {} /\ Start)
    \/ \E k \in 1..Len(BopInputs) : SetControls(BopInputs, k, MaxBopActions)
    \/ Tick(MaxBopTicks)

SpecBop == Init /\ [][NextBop]_vars

\* getBopActivations()
getBopActivations(e) == e.bopActivations

\* C13: a setControls call that takes bopStatus from "open" to "closed" adds
\* exactly 1 to getBopActivations(); every other setControls call (closed
\* again, open, no bopStatus) leaves the counter as it is.
C13_CountsOpenToClosed ==
    [][(lastOp'.op = "setControls" /\ now' = now) =>
          getBopActivations(engine') =
              getBopActivations(engine)
                  + (IF engine.controls.bopStatus = "open"
                          /\ engine'.controls.bopStatus = "closed"
                     THEN 1 ELSE 0)]_vars

\* the BOP was closed twice from open; the last call asked for a closed BOP
C13_Witness ==
    /\ getBopActivations(engine) = 2
    /\ lastOp.op = "setControls" /\ lastOp.arg = 2
    /\ Len(engine.actionLog) = 4

----------------------------------------------------------------------------
(* Kicks *)

\* getEventLog(): the number of events of type kick it lists
Kicks(e) ==
    Cardinality({i \in 1..Len(e.eventLog) : e.eventLog[i].type = "kick"})

\* the bit stands at 3000 ft in an attached formation whose pore pressure
\* there is 15.5, and the mud weight is set to 8.0
UnderbalancedAt3000 ==
    /\ engine.formation
    /\ engine.currentData.bitDepth = 3000000
    /\ getPropertiesAtDepth(layers, 3000000).porePressure = 15500
    /\ engine.controls.mudWeight = 8000

\* C11: with the bit at 3000 ft in a layer of pore pressure 15.5 and the mud
\* weight set to 8.0 (in this specification the host sets it after tick 1),
\* a kick event is in the event log once 5 more ticks have run.
C11_KickWithinFiveTicks ==
    (UnderbalancedAt3000 /\ engine.simulationTime >= 6) => Kicks(engine) > 0

\* C12: a tick logs a kick event only when, on the state the event detector
\* sees, the bit is deeper than 500 ft, the pore pressure at the bit exceeds
\* the hydrostatic pressure and the pit level is below 100; with the default
\* mud weight and the default layers no kick is logged above 2300 ft.
C12_KickOnlyWhenUnderbalanced ==
    [][(ExecutedTick /\ Kicks(engine') > Kicks(engine)) =>
          /\ engine'.currentData.bitDepth > 500000
          /\ getFormationPropertiesAtDepth(engine, engine.currentData.bitDepth).porePressure
                > MulK(MulK(engine.controls.mudWeight, 52), engine'.currentData.bitDepth)
          /\ Max(0, engine.currentData.pitLevel) < 100000
          /\ ~(/\ engine.controls.mudWeight = InitControls.mudWeight
               /\ \A i \in 1..Len(layers) :
                      layers[i].porePressure = initializeDefaultLayers[i].porePressure
               /\ engine'.currentData.bitDepth < 2300000)]_vars

\* a tick has logged a kick, and gas and pit level stand above their initial
\* values
C12_Witness ==
    /\ lastOp.op = "tick" /\ lastOp.ret
    /\ Kicks(engine) = 1
    /\ engine.eventLog[Len(engine.eventLog)].type = "kick"
    /\ engine.currentData.gasLevel > 0
    /\ engine.currentData.pitLevel > InitCurrentData(1).pitLevel

----------------------------------------------------------------------------
(* Equipment health *)

\* the health of the three equipment units
Healths(e) ==
    {e.equipmentStatus.pumps.health, e.equipmentStatus.drillString.health,
     e.equipmentStatus.bop.health}

\* C14: the health of the pumps, the drill string and the BOP lies in
\* [0, 100] in every reachable state.
C14_HealthWithinRange == \A h \in Healths(engine) : h >= 0 /\ h <= 100000

----------------------------------------------------------------------------
(* Reset *)

\* C15: after reset() the clock is stopped, isGameOver() is false, and the
\* SimulationState, the controls and the equipment are at their initial
\* constants, and the time-series log, the event log, the timeline and the
\* checkpoint list are empty.
C15_ResetRestoresFreshEngine ==
    [][(lastOp'.op = "reset" /\ now' = now) =>
          /\ timers' = {}
          /\ ~engine'.running
          /\ ~isGameOver(engine')
          /\ getCurrentData(engine') = getCurrentData(FreshFields(1))
          /\ engine'.controls = InitControls
          /\ engine'.equipmentStatus = InitEquipmentStatus
          /\ engine'.logData = <<>>
          /\ engine'.eventLog = <<>>
          /\ engine'.timelineEvents = <<>>
          /\ engine'.checkpoints = <<>>]_vars

----------------------------------------------------------------------------
(* The order of the sub-steps of a tick *)

\* C16: the terminal evaluator of a tick runs after the updater of that tick
\* (equipment health included), so a tick that leaves the health of a unit
\* at or below 0 ends in game over.
C16_EvaluatorSeesSameTickHealth ==
    [][(ExecutedTick /\ \E h \in Healths(engine') : h <= 0) =>
          isGameOver(engine')]_vars

\* C17: a tick that leaves the aggregate risk score at 100 while no terminal
\* rule of higher priority matches ends in game over, with the reason that
\* belongs to the type of the dominant sub-score; no host call is needed.
C17_Risk100EndsTheTick ==
    [][(ExecutedTick /\ lastOp'.held = {} /\ riskOf(engine').level >= 100000) =>
          /\ isGameOver(engine')
          /\ engine'.gameOverReason = riskGameOverReason(riskOf(engine').type)]_vars

----------------------------------------------------------------------------
(* SpecRisk: the host reads the risk level.  It may attach the formation   *)
(* model before the first tick; it starts the clock, overloads the pumps,  *)
(* lowers the bit, empties the mud of its weight, and calls getRiskLevel   *)
(* between the ticks.                                                      *)

RiskInputs ==
    << << <<"pumpRate", 900000>> >>,
       << <<"hookPosition", 140000>>, <<"drawworks", "unlocked">> >>,
       << <<"mudWeight", 0>> >>,
       << <<"mudWeight", 164000>> >>,
       << <<"mudWeight", 10000>> >> >>

NextRisk ==
    \/ (engine.simulationTime = 0 /\ ~engine.formation /\ SetFormation)
    \/ (timers = {} /\ Start)
    \/ \E k \in 1..Len(RiskInputs) : SetControls(RiskInputs, k, MaxRiskActions)
    \/ GetRiskLevel(MaxRiskEvents)
    \/ Tick(MaxRiskTicks)

SpecRisk == Init /\ [][NextRisk]_vars

\* the five sub-scores of a state, each with its type
SubScores(e) ==
    LET Scores(props) ==
            {<<kickSubScore(e, props), "kick">>,
             <<lossSubScore(e, props), "lostCirculation">>,
             <<pitSubScore(e), "pitDepletion">>,
             <<equipmentSubScore(e), "equipmentFailure">>,
             <<instabilitySubScore(e, props), "wellboreInstability">>}
    IN Scores(getFormationPropertiesAtDepth(e, e.currentData.bitDepth))

\* the step is a call of getRiskLevel
RiskRead == lastOp'.op = "getRiskLevel" /\ now' = now

\* C18: whatever state getRiskLevel() is called in, each of the five
\* sub-scores lies in [0, 100], the level returned is their maximum (so it
\* lies in [0, 100] too), and the type returned is that of a sub-score that
\* attains the maximum, or null when the level is 0.
C18_LevelIsMaxOfSubScores ==
    [][RiskRead =>
          /\ \A s \in SubScores(engine) : s[1] >= 0 /\ s[1] <= 100000
          /\ lastOp'.ret.level >= 0 /\ lastOp'.ret.level <= 100000
          /\ \A s \in SubScores(engine) : s[1] <= lastOp'.ret.level
          /\ IF lastOp'.ret.level = 0 THEN lastOp'.ret.type = "null"
             ELSE <<lastOp'.ret.level, lastOp'.ret.type>> \in SubScores(engine)]_vars

\* the host has read a risk of 100 from lost circulation while the
\* equipment sub-score was positive and smaller
C18_Witness ==
    /\ lastOp.op = "getRiskLevel"
    /\ lastOp.ret.level = 100000
    /\ lastOp.ret.type = "lostCirculation"
    /\ equipmentSubScore(engine) > 0
    /\ equipmentSubScore(engine) < 100000

----------------------------------------------------------------------------
(* The getters *)

\* C19: a call of a read-only getter between ticks changes no engine state;
\* for getRiskLevel: the game-over flag and reason, the timeline, the clock
\* and every other field are after the call what they were before it.
C19_GetRiskLevelChangesNothing ==
    [][RiskRead => engine' = engine /\ timers' = timers /\ layers' = layers]_vars

\* C20: what a getter returns is a copy; for getCurrentData: the record
\* returned before a tick, its events list included, reads after the tick
\* as it read when it was returned.
C20_ReturnedDataSurvivesTick ==
    [][ExecutedTick =>
          Resolved(engine', engine.currentData) = getCurrentData(engine)]_vars

----------------------------------------------------------------------------
(* The game-over record *)

getGameOverReason(e) == e.gameOverReason

getGameOverDetails(e) == e.gameOverDetails

\* C21: while isGameOver() stays true, no step (a tick, a call of
\* getRiskLevel that reads a risk of 100, a call of setControls) changes
\* getGameOverReason() or any field of getGameOverDetails().
C21_RecordFixedWhileGameOver ==
    [][(isGameOver(engine) /\ isGameOver(engine')) =>
          /\ getGameOverReason(engine') = getGameOverReason(engine)
          /\ getGameOverDetails(engine') = getGameOverDetails(engine)]_vars

\* the engine is in game over, setControls has made the action log longer
\* than the one of the record, and the host has read a risk of 100 again
C21_Witness ==
    /\ isGameOver(engine)
    /\ lastOp.op = "getRiskLevel"
    /\ lastOp.ret.level = 100000
    /\ Len(engine.actionLog) > Len(getGameOverDetails(engine).actionLog)

----------------------------------------------------------------------------
(* SpecClock: the clock of the engine.  The host starts, pauses, resumes,   *)
(* stops and resets the engine and changes its speed, in any order; the     *)
(* timers tick.                                                            *)

ClockSpeeds == {500, 2000}

NextClock ==
    \/ Start
    \/ Pause
    \/ Resume
    \/ Stop
    \/ Reset
    \/ \E speed \in ClockSpeeds : SetSpeed(speed)
    \/ Tick(MaxClockTicks)

SpecClock == Init /\ [][NextClock]_vars

\* C22: start() on a running engine, paused or not, changes nothing and
\* creates no timer; after every step at most one timer is active, and one
\* is active exactly when the engine is running.
C22_StartIdempotentOneTimer ==
    [][/\ (lastOp'.op = "start" /\ engine.running) =>
              engine' = engine /\ timers' = timers
       /\ Cardinality(timers') <= 1
       /\ (timers' # {}) <=> engine'.running]_vars

\* start() was called on a running, paused engine that had ticked
C22_Witness ==
    /\ lastOp.op = "start"
    /\ engine.running
    /\ engine.paused
    /\ engine.simulationTime > 0
    /\ Cardinality(timers) = 1

\* the engine state that setSpeed, stop and start are to leave alone: all of
\* it but the speed, the running and paused flags and the interval handle
Kept(e) ==
    [e EXCEPT !.speed = 0, !.running = FALSE, !.paused = FALSE,
              !.simulationInterval = 0]

C24_StopIsLossless ==
    [][/\ lastOp'.op = "stop" =>
              /\ timers' = {}
              /\ ~engine'.running
              /\ [Kept(engine') EXCEPT !.speed = engine.speed]
                   = [Kept(engine) EXCEPT !.speed = engine.speed]
       /\ lastOp'.op = "start" =>
              /\ engine'.running
              /\ [Kept(engine') EXCEPT !.speed = engine.speed]
                   = [Kept(engine) EXCEPT !.speed = engine.speed]
       /\ ExecutedTick => engine.running /\ timers # {}]_vars

\* the engine ticked and was stopped: no timer is left, and the tick count
\* and the event log are those of the ticks
C24_Witness ==
    /\ lastOp.op = "stop"
    /\ timers = {}
    /\ engine.simulationTime = MaxClockTicks
    /\ Len(engine.eventLog) > 0

----------------------------------------------------------------------------
(* SpecLogs: the logs filled to their retention sizes.  Before the clock    *)
(* is started the host calls createCheckpoint until the timeline is full    *)
(* and then, or not at all, refreshLogs until the time-series log is full;  *)
(* it starts the clock, opens and closes the BOP, and refreshes the logs    *)
(* when the bit has moved; the timer ticks.                                *)

MaxTimelineEvents == 100

LogInputs ==
    << << <<"bopStatus", "open">> >>,
       << <<"bopStatus", "closed">> >> >>

NextLogs ==
    \/ /\ timers = {} /\ engine.logData = <<>>
       /\ Len(engine.timelineEvents) < MaxTimelineEvents
       /\ CreateCheckpoint(MaxCheckpoints + 1)
    \/ /\ timers = {} /\ Len(engine.timelineEvents) = MaxTimelineEvents
       /\ Len(engine.logData) < MaxLogData
       /\ RefreshLogs
    \/ /\ timers = {} /\ Len(engine.timelineEvents) = MaxTimelineEvents
       /\ Len(engine.logData) \in {0, MaxLogData}
       /\ Start
    \/ /\ timers # {} /\ engine.logData # <<>>
       /\ Last(engine.logData).depth # engine.currentData.bitDepth
       /\ RefreshLogs
    \/ /\ timers # {}
       /\ \E k \in 1..Len(LogInputs) : SetControls(LogInputs, k, MaxLogActions)
    \/ Tick(MaxLogTicks)

SpecLogs == Init /\ [][NextLogs]_vars

\* new is what old becomes when the entries added are appended to it and
\* the oldest entries beyond the size are dropped
FifoAppended(old, new, size) ==
    \E k \in 0..Len(new) :
        new = SliceLast(old \o SubSeq(new, Len(new) - k + 1, Len(new)), size)

\* C25: the time-series log never holds more than 1000 entries and the
\* timeline never more than 100; every step leaves each of them as it was
\* or appends to it, dropping the oldest entries of a full log and keeping
\* the order of the rest; a refreshLogs call appends the current data.
C25_LogsCappedFifo ==
    [][/\ Len(engine'.logData) <= 1000
       /\ Len(engine'.timelineEvents) <= 100
       /\ FifoAppended(engine.logData, engine'.logData, 1000)
       /\ FifoAppended(engine.timelineEvents, engine'.timelineEvents, 100)
       /\ lastOp'.op = "refreshLogs" =>
              /\ Len(engine'.logData) = Min(1000, Len(engine.logData) + 1)
              /\ Last(engine'.logData).depth = engine.currentData.bitDepth]_vars

\* the timeline is full and its oldest checkpoint entry has made room for
\* the entry of a BOP closure
C25_Witness ==
    /\ Len(engine.timelineEvents) = 100
    /\ lastOp.op = "setControls"
    /\ Last(engine.timelineEvents).type = "bopActivation"
    /\ engine.timelineEvents[1].type = "checkpoint"

----------------------------------------------------------------------------
(* SpecEvents: a hazard that appears and clears.  The host starts the       *)
(* clock, opens the BOP and weights the mud above the fracture pressure,    *)
(* lets one tick pass, sets the mud weight back, lets one tick pass, and so *)
(* on.                                                                     *)

EventInputs ==
    << << <<"mudWeight", 17000>>, <<"bopStatus", "open">> >>,
       << <<"mudWeight", 10000>> >> >>

NextEvents ==
    \/ (timers = {} /\ Start)
    \/ /\ timers # {} /\ lastOp.op # "setControls"
       /\ engine.controls.mudWeight # 17000
       /\ SetControls(EventInputs, 1, MaxEventActions)
    \/ /\ timers # {} /\ lastOp.op # "setControls"
       /\ engine.controls.mudWeight = 17000
       /\ SetControls(EventInputs, 2, MaxEventActions)
    \/ (lastOp.op = "setControls" /\ Tick(MaxEventTicks))

SpecEvents == Init /\ [][NextEvents]_vars

getEventLog(e) == e.eventLog

\* C26: the event log that getEventLog() returns never holds more entries
\* than a fixed retention size (here 100, the size of the timeline),
\* whatever ticks and control changes came before.
C26_EventLogBounded == Len(getEventLog(engine)) <= 100

----------------------------------------------------------------------------
(* SpecFormation: the layer list of a FormationModel under addLayer,        *)
(* updateLayer and removeLayer, with layers of two names at three depths.   *)

LayerNames == {"Shale", "Salt"}

LayerDepths == {0, 1000000, 4000000}

NewLayers ==
    {[name |-> n, depth |-> dp, thickness |-> 500000, porePressure |-> 9500,
      fracturePressure |-> 14500, permeability |-> 1, lithology |-> "shale",
      kickRisk |-> Undefined] : n \in LayerNames, dp \in LayerDepths}

AddLayer(layer) ==
    /\ Len(layers) < MaxLayers
    /\ layers' = addLayer(layers, layer)
    /\ Op("addLayer", layer.name, TRUE)
    /\ UNCHANGED <<engine, timers, now>>

RemoveLayer(layerName) ==
    /\ layers' = removeLayer(layers, layerName)
    /\ Op("removeLayer", layerName, TRUE)
    /\ UNCHANGED <<engine, timers, now>>

NextFormation ==
    \/ \E layer \in NewLayers : AddLayer(layer)
    \/ \E layer \in NewLayers : UpdateLayer(layer)
    \/ \E layerName \in LayerNames \cup {"Reservoir"} : RemoveLayer(layerName)

SpecFormation == Init /\ [][NextFormation]_vars

SortedByDepth(ls) == \A i \in 1..(Len(ls) - 1) : ls[i].depth <= ls[i + 1].depth

\* C27: after every addLayer, updateLayer and removeLayer call the layer
\* list is sorted by ascending top depth; an updateLayer or a removeLayer
\* with a name that no layer has leaves the list as it was.
C27_LayersStaySorted ==
    [][/\ SortedByDepth(layers')
       /\ (lastOp'.op \in {"updateLayer", "removeLayer"}
             /\ LayerNamed(layers, lastOp'.arg) = 0) => layers' = layers]_vars

\* updateLayer has moved the layer named Shale from the second place to the
\* last
C27_Witness ==
    /\ lastOp.op = "updateLayer"
    /\ lastOp.arg = "Shale"
    /\ Len(layers) = 4
    /\ layers[4].name = "Shale"
    /\ layers[4].depth = 4000000
    /\ layers[1].name = "Topsoil"

----------------------------------------------------------------------------
(* SpecProps: getPropertiesAtDepth as a function of the layer list and the *)
(* depth.  The layer list is the default one with its reservoir and its    *)
(* deepest zone replaced by thicker, thinner, deeper and higher-pressured  *)
(* ones, ranges never overlapping; the host asks for the properties at     *)
(* sample depths.                                                          *)

ZoneLayers ==
    {initializeDefaultLayers[4],
     DeepZone,
     [DeepZone EXCEPT !.depth = 2300000, !.thickness = 1500000],
     [DeepZone EXCEPT !.depth = 2300000, !.thickness = 7]}

ReservoirLayers ==
    {initializeDefaultLayers[3],
     [initializeDefaultLayers[3] EXCEPT !.porePressure = 10500]}

PropsLayerLists ==
    {updateLayer(updateLayer(initializeDefaultLayers, zone), reservoir) :
        zone \in ZoneLayers, reservoir \in ReservoirLayers}

SampleDepths ==
    {0, 250000, 499999, 500000, 1000000, 1499999, 1500000, 2299999, 2300000,
     2300001, 2300006, 2550000, 2799999, 3000000, 3250000, 3499999, 3799999}

InRange(layer, depth) ==
    depth >= layer.depth /\ depth < layer.depth + layer.thickness

NonOverlapping(ls) ==
    \A i \in 1..(Len(ls) - 1) : ls[i].depth + ls[i].thickness <= ls[i + 1].depth

\* the formation model with one of the layer lists, read once at the surface
InitProps ==
    /\ engine = FreshFields(1)
    /\ layers \in {ls \in PropsLayerLists : NonOverlapping(ls)}
    /\ timers = {}
    /\ now = 0
    /\ lastOp = [op |-> "getPropertiesAtDepth", arg |-> 0,
                 ret |-> getPropertiesAtDepth(layers, 0), held |-> {}]

\* the host calls getPropertiesAtDepth(depth) on the formation model
GetPropertiesAtDepth(depth) ==
    /\ Op("getPropertiesAtDepth", depth, getPropertiesAtDepth(layers, depth))
    /\ UNCHANGED <<engine, layers, timers, now>>

NextProps == \E depth \in SampleDepths : GetPropertiesAtDepth(depth)

SpecProps == InitProps /\ [][NextProps]_vars

\* the two steps around the current state are calls of getPropertiesAtDepth
TwoReads == lastOp.op = "getPropertiesAtDepth" /\ lastOp'.op = "getPropertiesAtDepth"

----------------------------------------------------------------------------
(* SpecGas: a gas influx left alone or answered.  The host may attach the  *)
(* formation model, load the scenario "blowout" and set the speed; it      *)
(* thins the mud, opens the BOP, stops the rotary table and unlocks the    *)
(* drawworks to lower the bit, and starts the clock.  After the first tick *)
(* it starts tripping out and raises the hook a little: the swab lets gas  *)
(* in for three ticks.  When the gas-influx warning has started, a         *)
(* millisecond may pass and the host may then close the BOP, weight the    *)
(* mud or open the choke.                                                  *)

GasSpeeds == {500, 2000}

GasInputs ==
    << << <<"hookPosition", 140000>>, <<"drawworks", "unlocked">>,
          <<"rotarySpeed", 0>>, <<"mudWeight", 200>>,
          <<"bopStatus", "open">> >>,
       << <<"hookPosition", 13600>> >>,
       << <<"bopStatus", "closed">> >>,
       << <<"mudWeight", 12000>> >>,
       << <<"chokePosition", 50000>> >> >>

\* the gas-influx warning started with the last tick
WarningJustStarted(e) ==
    /\ e.warningTimers["gasInflux"] # 0
    /\ e.warningTimers["gasInflux"] = e.simulationTime
    /\ ~isGameOver(e)

NextGas ==
    \/ (timers = {} /\ ~engine.formation /\ engine.actionLog = <<>> /\ SetFormation)
    \/ /\ timers = {} /\ engine.scenario = "normal" /\ engine.actionLog = <<>>
       /\ LoadScenario("blowout")
    \/ /\ timers = {} /\ engine.actionLog = <<>> /\ engine.speed = 1000
       /\ \E speed \in GasSpeeds : SetSpeed(speed)
    \/ /\ timers = {} /\ engine.actionLog = <<>>
       /\ SetControls(GasInputs, 1, MaxGasActions)
    \/ (timers = {} /\ engine.actionLog # <<>> /\ Start)
    \/ /\ engine.simulationTime = 1 /\ ~engine.trippingStatus.isTripping
       /\ StartTripping("out", 150000, MaxGasActions)
    \/ /\ engine.simulationTime = 1 /\ engine.trippingStatus.isTripping
       /\ engine.controls.hookPosition = 140000
       /\ SetControls(GasInputs, 2, MaxGasActions)
    \/ (WarningJustStarted(engine) /\ AdvanceClock)
    \/ /\ WarningJustStarted(engine)
       /\ now > engine.warningTimestamps["gasInflux"]
       /\ \E k \in 3..5 : SetControls(GasInputs, k, MaxGasActions)
    \/ /\ engine.simulationTime = 1 =>
              engine.controls.hookPosition # 140000
       /\ Tick(MaxGasTicks)

SpecGas == Init /\ [][NextGas]_vars

\* the reasons of the gas-influx rule
GasReasons == {"H2S Exposure", "Uncontrolled Gas Influx"}

\* the rules that come before the gas-influx rule in the evaluator
RulesBeforeGas ==
    {"Mud Pit Depletion", "Blowout Event", "Formation Breakdown with Kick"}

\* the entries of the action log that record a change of the BOP status, of
\* the mud weight or of the choke position made after the warning started
Mitigations(e) ==
    {i \in 1..Len(e.actionLog) :
        /\ e.actionLog[i].action \in
               {"Changed bopStatus", "Changed mudWeight", "Changed chokePosition"}
        /\ e.actionLog[i].time > e.warningTimestamps["gasInflux"]}

\* the step is a tick that the warning, started in an earlier tick, has
\* lasted to, with the bit below 500 ft and the gas above 5, and no rule
\* that comes before the gas-influx rule holding
GasTick ==
    /\ ExecutedTick
    /\ ~isGameOver(engine)
    /\ engine.warningTimers["gasInflux"] # 0
    /\ engine'.currentData.bitDepth > 500000
    /\ engine'.currentData.gasLevel > 5000
    /\ lastOp'.held \cap RulesBeforeGas = {}

\* the ticks the warning has lasted when the tick of the step has run
GasElapsed == engine'.simulationTime - engine.warningTimers["gasInflux"]

\* the step ends the game by the gas-influx rule: the reason goes with the
\* lithology at the bit and the scenario, and one missed warning is added
GasEndsTheGame ==
    /\ isGameOver(engine')
    /\ engine'.gameOverReason =
          IF \/ getFormationPropertiesAtDepth(engine',
                    engine'.currentData.bitDepth).lithology = "shale"
             \/ engine.scenario = "blowout"
          THEN "H2S Exposure" ELSE "Uncontrolled Gas Influx"
    /\ Len(engine'.missedWarnings) = Len(engine.missedWarnings) + 1
    /\ Last(engine'.missedWarnings).warning = "Gas Influx Detected"

\* C29 as stated: a tick that the gas-influx condition has lasted to for
\* more than 60 simulated seconds (60 ticks), no mitigating control change
\* being recorded since it started, ends the game with reason "H2S
\* Exposure" (shale at the bit, or scenario "blowout") or "Uncontrolled Gas
\* Influx", and records one missed warning "Gas Influx Detected".
C29_GasIgnoredFor60Ticks ==
    [][(GasTick /\ GasElapsed > 60 /\ Mitigations(engine) = {})
          => GasEndsTheGame]_vars

\* C29, amended: the limit is 60 ticks times the speed multiplier.  A tick
\* that the gas-influx condition has lasted to for more than 60 x speed
\* ticks, no mitigating control change being recorded since it started,
\* ends the game with reason "H2S Exposure" (shale at the bit, or scenario
\* "blowout") or "Uncontrolled Gas Influx" and records one missed warning
\* "Gas Influx Detected"; and no tick ends the game with one of these
\* reasons before the condition has lasted that long.
C29_GasIgnoredFor60TimesSpeed ==
    [][/\ (GasTick /\ GasElapsed * 1000 > 60 * engine.speed
               /\ Mitigations(engine) = {})
          => GasEndsTheGame
       /\ (ExecutedTick /\ ~isGameOver(engine) /\ isGameOver(engine')
               /\ engine'.gameOverReason \in GasReasons)
          => (GasTick /\ GasElapsed * 1000 > 60 * engine.speed)]_vars

\* at half speed the influx, left alone, has ended the game in the 31st
\* tick of the warning
C29_Witness ==
    /\ lastOp.op = "tick"
    /\ isGameOver(engine)
    /\ engine.gameOverReason = "Uncontrolled Gas Influx"
    /\ engine.speed = 500
    /\ engine.simulationTime - engine.warningTimers["gasInflux"] = 31
    /\ Len(engine.missedWarnings) = 1
    /\ Mitigations(engine) = {}

\* C30: when a change of the BOP status, of the mud weight or of the choke
\* position made through setControls has been recorded after the gas-influx
\* warning started, the tick at which the warning has run out does not end
\* the game by the gas-influx rule, and the warning timer no longer counts
\* from the old start.
C30_ControlChangeMitigates ==
    [][(GasTick /\ GasElapsed * 1000 > 60 * engine.speed
           /\ Mitigations(engine) # {})
          => /\ engine'.gameOverReason \notin GasReasons
             /\ ~isGameOver(engine')
                   => engine'.warningTimers["gasInflux"]
                          # engine.warningTimers["gasInflux"]]_vars

\* the events of the given type that the step has appended to the event log
NewEvents(type) ==
    Cardinality({i \in (Len(engine.eventLog) + 1)..Len(engine'.eventLog) :
                    engine'.eventLog[i].type = type})

\* the tripping speed of the tick of the step, in feet per minute
StepTripSpeed ==
    LET timeDelta == engine'.simulationTime - engine.trippingStatus.lastTime
    IN IF engine.trippingStatus.isTripping /\ timeDelta > 0
       THEN (Abs(engine'.currentData.bitDepth - engine.trippingStatus.lastDepth) * 60)
               \div timeDelta
       ELSE 0

\* the condition of a warning, in the tick of the step
StepCondition(k) ==
    LET cd == engine'.currentData
        props == getFormationPropertiesAtDepth(engine, engine.currentData.bitDepth)
        below == getFormationPropertiesAtDepth(engine', cd.bitDepth)
        lost == \/ cd.mudWeight > props.fracturePressure
                \/ cd.standpipePressure > props.fracturePressure * 150
    IN CASE k = "kick" ->
                kickCondition([cd EXCEPT !.pitLevel = Max(0, engine.currentData.pitLevel)],
                              props)
         [] k = "lostCirculation" -> lost
         [] k = "severeLostCirculation" ->
                /\ lost
                /\ Max((cd.mudWeight - props.fracturePressure) * 2,
                       (cd.standpipePressure - props.fracturePressure * 150) \div 100)
                      > 5000
         [] k = "swabKick" ->
                /\ engine.trippingStatus.direction = "out"
                /\ StepTripSpeed > 100000
                /\ Hydrostatic(cd) < cd.formationPressure
         [] k = "surgeLoss" ->
                /\ engine.trippingStatus.direction = "in"
                /\ StepTripSpeed > 100000
                /\ cd.annularPressure > below.fracturePressure * 100
         [] k = "highVibration" ->
                engine'.equipmentStatus.drillString.vibration > 80000
         [] k = "highTorque" ->
                engine'.equipmentStatus.drillString.torque > 90000
         [] k = "bopWithRotation" ->
                /\ engine.controls.bopStatus = "closed"
                /\ engine.controls.rotarySpeed > 30000

\* C31: for each of the eight event types with a warning timer, a tick in
\* which the condition holds while the timer is set appends no event of
\* the type, no tick appends more than one, and after a tick in which the
\* condition is false the timer of the type is 0.
C31_LoggedOncePerOccurrence ==
    [][ExecutedTick =>
          \A k \in WarningKinds \ {"gasInflux"} :
              /\ NewEvents(k) <= 1
              /\ engine.warningTimers[k] # 0 => NewEvents(k) = 0
              /\ ~StepCondition(k) => engine'.warningTimers[k] = 0]_vars

\* the kick probability computed from the kickRisk of the layer that holds
\* the depth the tick of the step reads the formation at, in thousandths
LayerKickProbability ==
    LET depth == engine.currentData.bitDepth
        props == getFormationPropertiesAtDepth(engine, depth)
        pos == LayerPosAtDepth(layers, depth)
        pressureDifferential ==
            props.porePressure - Hydrostatic(engine'.currentData)
    IN Min(1000, MulK(pressureDifferential \div 10, layers[pos].kickRisk))

\* the step is a tick that opens the kick branch at a depth inside a layer
\* whose kickRisk is set
KickBranchInLayer ==
    /\ ExecutedTick
    /\ engine.formation
    /\ StepCondition("kick")
    /\ LayerPosAtDepth(layers, engine.currentData.bitDepth) # 0
    /\ layers[LayerPosAtDepth(layers, engine.currentData.bitDepth)].kickRisk
          # Undefined

\* C32: with a formation attached by setFormation, a tick that opens the
\* kick branch at a depth D takes the kick with the probability
\* min(1, differential * 0.1 * kickRisk of the layer that holds D): where
\* that probability is 1 the gas level rises in the tick whatever
\* Math.random() returns.
C32_KickRiskOfLayer ==
    [][KickBranchInLayer /\ LayerKickProbability >= 1000
          => engine'.currentData.gasLevel > engine.currentData.gasLevel]_vars

\* the step has stored an automatic checkpoint taken in its own tick
AutoCheckpointCreated ==
    /\ engine'.checkpoints # engine.checkpoints
    /\ Len(engine'.checkpoints) > 0
    /\ Last(engine'.checkpoints).automatic
    /\ Last(engine'.checkpoints).state.simulationTime = engine'.simulationTime

\* the bit has moved into a deeper 500 ft interval in the step
CrossedInterval ==
    engine'.currentData.bitDepth \div 500000
        > engine.currentData.bitDepth \div 500000

\* C33: a tick in which floor(depth / 500) increases stores one automatic
\* checkpoint, whether the depth advances by the rate of penetration or by
\* the hook-position target, and a tick without such a crossing stores
\* none.
C33_AutoCheckpointOnCrossing ==
    [][ExecutedTick => (CrossedInterval <=> AutoCheckpointCreated)]_vars

\* the events the step has appended to the event log, in order
RaisedInStep ==
    SubSeq(engine'.eventLog, Len(engine.eventLog) + 1, Len(engine'.eventLog))

\* C34: after a tick the events list of getCurrentData() holds the events
\* raised in that tick and no event of an earlier tick.
C34_EventsOfLatestTick ==
    [][ExecutedTick => getCurrentData(engine').events = RaisedInStep]_vars

----------------------------------------------------------------------------
(* SpecDefault: the engine left to itself.  The host starts, pauses,       *)
(* resumes, stops and resets the clock and changes no control; the timer   *)
(* ticks.                                                                  *)

NextDefault ==
    \/ Start
    \/ Pause
    \/ Resume
    \/ Stop
    \/ Reset
    \/ Tick(MaxDefaultTicks)

SpecDefault == Init /\ [][NextDefault]_vars

\* C35: on an engine as constructed or reset, started and ticked with the
\* default controls (BOP closed, rotary speed 60), every tick that runs
\* takes 6 from the BOP health, and the engine is in game over, by "BOP
\* Failure", once 18 ticks have run: no other rule ends the game before.
C35_DefaultControlsFailTheBop ==
    /\ [][(ExecutedTick /\ engine.controls = InitControls)
             => /\ engine'.equipmentStatus.bop.health
                     = engine.equipmentStatus.bop.health - 6000
                /\ isGameOver(engine') => engine'.gameOverReason = "BOP Failure"
                /\ engine'.simulationTime >= 18 => isGameOver(engine')]_vars
    /\ [](engine.controls = InitControls => engine.simulationTime <= 18)

\* the game over of tick 18, the BOP health at -8 and the bit at 0.25 ft
C35_Witness ==
    /\ engine.controls = InitControls
    /\ isGameOver(engine)
    /\ engine.gameOverReason = "BOP Failure"
    /\ engine.simulationTime = 18
    /\ engine.equipmentStatus.bop.health = 0 - 8000
    /\ engine.currentData.bitDepth < 500000
    /\ Len(engine.eventLog) = 2

\* the fields of the SimulationState that triggerGameOver records
RecordedParameters ==
    {"rop", "pumpPressure", "pitLevel", "gasLevel", "mudWeight",
     "standpipePressure", "annularPressure", "formationPressure"}

\* the recorded parameters are the current ones
ParametersAreCurrent(e) ==
    \A f \in RecordedParameters :
        getGameOverDetails(e).parameters[f] = getCurrentData(e)[f]

\* C36: the tick that ends the game changes no equipment field after the
\* evaluator has run, the equipment being updated only after it, and from
\* the end of that tick on, while the game is over, the parameters of
\* getGameOverDetails() are the fields of getCurrentData().
C36_NothingChangesAfterTheEnd ==
    /\ [][ExecutedTick /\ isGameOver(engine')
             => engine'.equipmentStatus = engine.equipmentStatus]_vars
    /\ [](isGameOver(engine) => ParametersAreCurrent(engine))

\* C37: the stored checkpoints have pairwise distinct ids, also when two of
\* them, automatic or manual, were created at the same clock reading, so
\* that loadCheckpoint(c.id) restores c itself.
C37_CheckpointIdsDistinct ==
    \A i, j \in 1..Len(engine.checkpoints) :
        i # j => engine.checkpoints[i].id # engine.checkpoints[j].id

----------------------------------------------------------------------------
(* SpecReload: the engine left to fail and loaded back.  The host starts,  *)
(* pauses, resumes and stops the clock, stores a checkpoint before the     *)
(* first tick and loads it, and changes no control; the timer ticks, and   *)
(* the BOP fails in tick 18.                                               *)

NextReload ==
    \/ Start
    \/ Pause
    \/ Resume
    \/ Stop
    \/ (engine.simulationTime = 0 /\ CreateCheckpoint(MaxReloadStored))
    \/ LoadCheckpoint(0, MaxReloadLoads)
    \/ Tick(MaxReloadTicks)

SpecReload == Init /\ [][NextReload]_vars

\* the calls that set the paused flag to false: resume(), stop(), start(),
\* and reset(), which calls stop()
Unpausing == {"resume", "stop", "start", "reset", "loadScenario"}

\* C38: the step that ends the game leaves the clock paused; a successful
\* loadCheckpoint clears the game-over state and leaves the paused flag as
\* it is; a timer firing on a paused engine changes nothing; and only
\* resume(), stop() or start() take the pause away.
C38_LoadLeavesTheClockPaused ==
    [][/\ (~isGameOver(engine) /\ isGameOver(engine')) => engine'.paused
       /\ (lastOp'.op = "loadCheckpoint" /\ lastOp'.ret)
             => (engine'.paused = engine.paused /\ ~isGameOver(engine'))
       /\ (TimerFires /\ engine.paused) => engine' = engine
       /\ (engine.paused /\ ~engine'.paused) => lastOp'.op \in Unpausing]_vars

\* a timer has fired on the engine loaded back from game over and not yet
\* resumed: the restored state stands
C38_Witness ==
    /\ lastOp.op = "tick"
    /\ ~lastOp.ret
    /\ engine.paused
    /\ engine.running
    /\ ~isGameOver(engine)
    /\ Loads(engine) = 1
    /\ \E i \in 1..Len(engine.eventLog) : engine.eventLog[i].type = "gameOver"
    /\ engine.simulationTime < 18

\* C39: every active timer has the period 1000 / speed ms of the current
\* speed, also after a setSpeed on a paused engine and the resume() that
\* follows, so that the tick rate and the depth taken per tick agree.
C39_TimerPeriodFollowsSpeed ==
    \A t \in timers : t.period = Period(engine.speed)

----------------------------------------------------------------------------
(* SpecHandled: gas taken in and the engine set back.  The host lowers the *)
(* bit to 1400 ft with the mud at 0.2 ppg and the BOP open, stores a       *)
(* checkpoint after the first tick, pulls out fast, which swabs gas in,    *)
(* closes the BOP, and loads the checkpoint, or resets the engine if it    *)
(* has not closed the BOP; the timer ticks, the second tick after the hook *)
(* target was raised.                                                      *)

NextHandled ==
    \/ /\ timers = {} /\ engine.actionLog = <<>> /\ engine.simulationTime = 0
       /\ SetControls(GasInputs, 1, MaxHandledActions)
    \/ (timers = {} /\ Start)
    \/ /\ engine.simulationTime = 1 /\ ~engine.trippingStatus.isTripping
       /\ StartTripping("out", 150000, MaxHandledActions)
    \/ /\ engine.simulationTime = 1 /\ engine.trippingStatus.isTripping
       /\ engine.controls.hookPosition = 140000
       /\ SetControls(GasInputs, 2, MaxHandledActions)
    \/ /\ engine.simulationTime > 1 /\ engine.previousGasLevel > 3000
       /\ SetControls(GasInputs, 3, MaxHandledActions)
    \/ /\ engine.simulationTime = 1 /\ engine.previousGasLevel = 0
       /\ ~engine.trippingStatus.isTripping
       /\ CreateCheckpoint(MaxHandledStored)
    \/ /\ engine.simulationTime > 1 /\ engine.previousGasLevel > 3000
       /\ LoadCheckpoint(0, MaxHandledLoads)
    \/ /\ engine.simulationTime > 1 /\ engine.previousGasLevel > 3000
       /\ engine.bopActivations = 0 /\ engine.kicksHandled < MaxHandledKicks
       /\ Reset
    \/ /\ engine.simulationTime = 1 =>
              engine.controls.hookPosition # 140000
       /\ Tick(MaxHandledTicks)

SpecHandled == Init /\ [][NextHandled]_vars

\* the calls that replace the SimulationState
Replacing == {"reset", "loadCheckpoint", "loadScenario"}

====
